---- MODULE Spec2Model ----
(***************************************************************************)
(* Conditional-logic evaluation (src/src/utils/conditionalLogic.ts),       *)
(* schema validation (utils/validation, built on yup), the autocomplete    *)
(* field's debounced remote search and the file-upload field of            *)
(* conform-react.                                                          *)
(*                                                                         *)
(* JavaScript values are tagged records.  A string is the sequence of its  *)
(* characters, so that path splitting, substring tests and the String()    *)
(* and Number() coercions are computed and not assumed.  Arrays and        *)
(* objects carry an identity `id`: === compares them by reference.         *)
(* A call that throws yields the outcome TypeError.                        *)
(***************************************************************************)
EXTENDS Integers, Sequences, FiniteSets, TLC

VARIABLES formValues, call, result, pendingValidation, autocomplete, fileUpload

vars == <<formValues, call, result, pendingValidation, autocomplete, fileUpload>>

\* no validation is running; no autocomplete or file-upload field is mounted
NoValidation == [phase |-> "none"]

Unmounted == [mounted |-> FALSE]

\* the state outside the function under call
components == <<pendingValidation, autocomplete, fileUpload>>

NoComponents ==
    /\ pendingValidation = NoValidation
    /\ autocomplete = Unmounted
    /\ fileUpload = Unmounted

-----------------------------------------------------------------------------
(* JavaScript values *)

Undefined == [t |-> "undefined"]

Null == [t |-> "null"]

NaN == [t |-> "NaN"]

Str(s) == [t |-> "string", s |-> s]

Num(n) == [t |-> "number", n |-> n]

Bool(b) == [t |-> "boolean", b |-> b]

Arr(id, e) == [t |-> "array", id |-> id, e |-> e]

Obj(id, f) == [t |-> "object", id |-> id, f |-> f]

\* a method inherited from the prototype of `owner`
Fn(owner) == [t |-> "function", of |-> owner]

\* the outcome of a call that throws
TypeError == [t |-> "TypeError"]

Digits == {"0", "1", "2", "3", "4", "5", "6", "7", "8", "9"}

DigitValue(c) ==
    CASE c = "0" -> 0 [] c = "1" -> 1 [] c = "2" -> 2 [] c = "3" -> 3
      [] c = "4" -> 4 [] c = "5" -> 5 [] c = "6" -> 6 [] c = "7" -> 7
      [] c = "8" -> 8 [] c = "9" -> 9

DigitChar(d) ==
    CASE d = 0 -> "0" [] d = 1 -> "1" [] d = 2 -> "2" [] d = 3 -> "3"
      [] d = 4 -> "4" [] d = 5 -> "5" [] d = 6 -> "6" [] d = 7 -> "7"
      [] d = 8 -> "8" [] d = 9 -> "9"

\* the property names the engine meets besides the form's own field names
LengthKey == <<"l", "e", "n", "g", "t", "h">>

ToStringKey == <<"t", "o", "S", "t", "r", "i", "n", "g">>

\* names every object inherits from its prototype chain (one representative)
ProtoKeys == {ToStringKey}

\* JavaScript truthiness: what `current && ...` and `if (x)` test
Truthy(v) ==
    /\ v.t \notin {"undefined", "null", "NaN"}
    /\ (v.t = "boolean" => v.b)
    /\ (v.t = "number" => v.n # 0)
    /\ (v.t = "string" => v.s # <<>>)

\* typeof v === 'object' && v !== null
IsObjectLike(v) == v.t \in {"object", "array"}

RECURSIVE DecimalDigits(_)
\* the decimal digits of a natural number
DecimalDigits(n) ==
    IF n < 10 THEN <<DigitChar(n)>>
    ELSE DecimalDigits(n \div 10) \o <<DigitChar(n % 10)>>

NumberToString(n) ==
    IF n < 0 THEN <<"-">> \o DecimalDigits(0 - n) ELSE DecimalDigits(n)

RECURSIVE DigitsValue(_)
DigitsValue(s) ==
    IF s = <<>> THEN 0
    ELSE 10 * DigitsValue(SubSeq(s, 1, Len(s) - 1)) + DigitValue(s[Len(s)])

\* Number(s) of a string: "" is 0, a run of decimal digits is its value, and a
\* string holding any other character is NaN (the strings of the model hold
\* no sign, decimal point, exponent or white space)
StringToNumber(s) ==
    IF s = <<>> THEN Num(0)
    ELSE IF \A i \in 1..Len(s) : s[i] \in Digits THEN Num(DigitsValue(s))
    ELSE NaN

RECURSIVE StringOf(_)
RECURSIVE Join(_, _)
\* Array.prototype.join(","): null and undefined elements print as ""
Join(e, i) ==
    IF i > Len(e) THEN <<>>
    ELSE (IF i > 1 THEN <<",">> ELSE <<>>)
         \o (IF e[i].t \in {"undefined", "null"} THEN <<>> ELSE StringOf(e[i]))
         \o Join(e, i + 1)

\* String(v)
StringOf(v) ==
    CASE v.t = "string" -> v.s
      [] v.t = "number" -> NumberToString(v.n)
      [] v.t = "NaN" -> <<"N", "a", "N">>
      [] v.t = "boolean" ->
           IF v.b THEN <<"t", "r", "u", "e">> ELSE <<"f", "a", "l", "s", "e">>
      [] v.t = "undefined" -> <<"u", "n", "d", "e", "f", "i", "n", "e", "d">>
      [] v.t = "null" -> <<"n", "u", "l", "l">>
      [] v.t = "array" -> Join(v.e, 1)
      [] v.t = "object" ->
           <<"[", "o", "b", "j", "e", "c", "t", " ", "O", "b", "j", "e", "c", "t", "]">>
      [] v.t = "function" ->
           <<"f", "u", "n", "c", "t", "i", "o", "n", " ">> \o ToStringKey
             \o <<"(", ")", " ", "{", " ", "[", "n", "a", "t", "i", "v", "e", " ",
                  "c", "o", "d", "e", "]", " ", "}">>

\* Number(v)
NumberOf(v) ==
    CASE v.t = "number" -> v
      [] v.t = "NaN" -> NaN
      [] v.t = "undefined" -> NaN
      [] v.t = "null" -> Num(0)
      [] v.t = "boolean" -> IF v.b THEN Num(1) ELSE Num(0)
      [] v.t = "string" -> StringToNumber(v.s)
      [] v.t \in {"array", "object", "function"} -> StringToNumber(StringOf(v))

\* a === b: primitives by value, arrays and objects by reference (the
\* identity is part of the value), and NaN equals nothing
StrictEquals(a, b) == a = b /\ a.t # "NaN"

\* SameValueZero, the comparison of Array.prototype.includes
SameValueZero(a, b) == (a.t = "NaN" /\ b.t = "NaN") \/ StrictEquals(a, b)

\* Array.prototype.includes
ArrayIncludes(e, x) == \E i \in 1..Len(e) : SameValueZero(e[i], x)

\* String.prototype.includes
StringIncludes(s, sub) ==
    \E i \in 0..(Len(s) - Len(sub)) : SubSeq(s, i + 1, i + Len(sub)) = sub

\* a < b, a > b, a <= b, a >= b on numbers: every comparison with NaN is false
NumLess(a, b) == a.t = "number" /\ b.t = "number" /\ a.n < b.n

NumLessEq(a, b) == a.t = "number" /\ b.t = "number" /\ a.n <= b.n

\* a canonical array index: "0", or digits without a leading zero
IsIndex(key) ==
    /\ key # <<>>
    /\ \A i \in 1..Len(key) : key[i] \in Digits
    /\ (Len(key) > 1 => key[1] # "0")

\* cur[key] for a truthy cur
GetProperty(cur, key) ==
    CASE cur.t = "object" ->
           IF key \in DOMAIN cur.f THEN cur.f[key]
           ELSE IF key \in ProtoKeys THEN Fn("Object") ELSE Undefined
      [] cur.t = "array" ->
           IF key = LengthKey THEN Num(Len(cur.e))
           ELSE IF IsIndex(key) /\ DigitsValue(key) < Len(cur.e)
                THEN cur.e[DigitsValue(key) + 1]
           ELSE IF key \in ProtoKeys THEN Fn("Array") ELSE Undefined
      [] cur.t = "string" ->
           IF key = LengthKey THEN Num(Len(cur.s))
           ELSE IF IsIndex(key) /\ DigitsValue(key) < Len(cur.s)
                THEN Str(<<cur.s[DigitsValue(key) + 1]>>)
           ELSE IF key \in ProtoKeys THEN Fn("String") ELSE Undefined
      [] cur.t = "number" -> IF key \in ProtoKeys THEN Fn("Number") ELSE Undefined
      [] cur.t = "boolean" -> IF key \in ProtoKeys THEN Fn("Boolean") ELSE Undefined
      [] cur.t = "function" ->
           IF key = LengthKey THEN Num(0)
           ELSE IF key \in ProtoKeys THEN Fn("Function") ELSE Undefined

RECURSIVE Split(_)
\* path.split('.'): "" splits to [""], "a..b" to ["a", "", "b"]
Split(s) ==
    IF \A i \in 1..Len(s) : s[i] # "."
    THEN <<s>>
    ELSE LET i == CHOOSE j \in 1..Len(s) :
                      s[j] = "." /\ \A k \in 1..(j - 1) : s[k] # "."
         IN <<SubSeq(s, 1, i - 1)>> \o Split(SubSeq(s, i + 1, Len(s)))

RECURSIVE Reduce(_, _, _)
\* the reduce callback of getNestedValue applied to keys[i..]
Reduce(current, keys, i) ==
    IF i > Len(keys) THEN current
    ELSE Reduce(IF Truthy(current) /\ GetProperty(current, keys[i]) # Undefined
                THEN GetProperty(current, keys[i])
                ELSE Undefined,
                keys, i + 1)

\* getNestedValue(obj, path); path.split throws when path is no string
getNestedValue(obj, path) ==
    IF path.t # "string" THEN TypeError
    ELSE Reduce(obj, Split(path.s), 1)

-----------------------------------------------------------------------------
(* Schema data.  A condition, a complex condition and a field descriptor   *)
(* are records holding only the keys the schema author wrote; reading a    *)
(* key that is not there gives undefined.  The expected value of a         *)
(* simple-syntax entry is a JavaScript value; a simple condition is the    *)
(* sequence of its entries in Object.entries order.                        *)

\* o[k] of a schema record whose values are JavaScript values
Prop(o, k) == IF k \in DOMAIN o THEN o[k] ELSE Undefined

\* condition.operator; the switch compares it with the twelve literals
OperatorOf(condition) ==
    IF "operator" \in DOMAIN condition THEN condition.operator ELSE "undefined"

\* x.includes(arg) for whatever x is: arrays and strings have the method
CallIncludes(x, arg) ==
    CASE x.t = "array" -> Bool(ArrayIncludes(x.e, arg))
      [] x.t = "string" -> Bool(StringIncludes(x.s, StringOf(arg)))
      [] OTHER -> TypeError

\* case 'equals'
EqualsCase(fieldValue, value) == Bool(StrictEquals(fieldValue, value))

\* case 'notEquals'
NotEqualsCase(fieldValue, value) == Bool(~StrictEquals(fieldValue, value))

\* case 'greaterThan'
GreaterThanCase(fieldValue, value) ==
    Bool(NumLess(NumberOf(value), NumberOf(fieldValue)))

\* case 'lessThan'
LessThanCase(fieldValue, value) ==
    Bool(NumLess(NumberOf(fieldValue), NumberOf(value)))

\* case 'greaterThanOrEqual' comparing strictly
GreaterThanOrEqualCaseStrict(fieldValue, value) ==
    Bool(NumLess(NumberOf(value), NumberOf(fieldValue)))

\* case 'greaterThanOrEqual'
GreaterThanOrEqualCase(fieldValue, value) ==
    Bool(NumLessEq(NumberOf(value), NumberOf(fieldValue)))

\* case 'lessThanOrEqual'
LessThanOrEqualCase(fieldValue, value) ==
    Bool(NumLessEq(NumberOf(fieldValue), NumberOf(value)))

\* case 'contains'
ContainsCase(fieldValue, value) ==
    IF fieldValue.t = "string"
    THEN Bool(StringIncludes(fieldValue.s, StringOf(value)))
    ELSE IF fieldValue.t = "array"
    THEN Bool(ArrayIncludes(fieldValue.e, value))
    ELSE Bool(FALSE)

\* case 'notContains' ending like case 'contains', with return false
NotContainsCaseFalse(fieldValue, value) ==
    IF fieldValue.t = "string"
    THEN Bool(~StringIncludes(fieldValue.s, StringOf(value)))
    ELSE IF fieldValue.t = "array"
    THEN Bool(~ArrayIncludes(fieldValue.e, value))
    ELSE Bool(FALSE)

\* case 'notContains'
NotContainsCase(fieldValue, value) ==
    IF fieldValue.t = "string"
    THEN Bool(~StringIncludes(fieldValue.s, StringOf(value)))
    ELSE IF fieldValue.t = "array"
    THEN Bool(~ArrayIncludes(fieldValue.e, value))
    ELSE Bool(TRUE)

\* case 'in'
InCase(fieldValue, values) ==
    IF Truthy(values) THEN CallIncludes(values, fieldValue) ELSE Bool(FALSE)

\* case 'notIn'
NotInCase(fieldValue, values) ==
    IF Truthy(values)
    THEN LET r == CallIncludes(values, fieldValue)
         IN IF r = TypeError THEN TypeError ELSE Bool(~r.b)
    ELSE Bool(TRUE)

\* case 'isEmpty'
IsEmptyCase(fieldValue) ==
    Bool(\/ fieldValue = Null
         \/ fieldValue = Undefined
         \/ fieldValue = Str(<<>>)
         \/ (fieldValue.t = "array" /\ Len(fieldValue.e) = 0))

\* case 'isNotEmpty' as a truthiness test: 0, false and NaN count as empty
IsNotEmptyCaseTruthy(fieldValue) ==
    Bool(Truthy(fieldValue) /\ (fieldValue.t # "array" \/ Len(fieldValue.e) > 0))

\* case 'isNotEmpty'
IsNotEmptyCase(fieldValue) ==
    Bool(/\ fieldValue # Null
         /\ fieldValue # Undefined
         /\ fieldValue # Str(<<>>)
         /\ (fieldValue.t # "array" \/ Len(fieldValue.e) > 0))

\* getNestedValue runs before the switch, so its throw ends the call
evaluateCondition(condition, fv) ==
    LET fieldValue == getNestedValue(fv, Prop(condition, "field"))
        value == Prop(condition, "value")
        values == Prop(condition, "values")
        operator == OperatorOf(condition)
    IN IF fieldValue = TypeError THEN TypeError
       ELSE CASE operator = "equals" -> EqualsCase(fieldValue, value)
              [] operator = "notEquals" -> NotEqualsCase(fieldValue, value)
              [] operator = "greaterThan" -> GreaterThanCase(fieldValue, value)
              [] operator = "lessThan" -> LessThanCase(fieldValue, value)
              [] operator = "greaterThanOrEqual" ->
                   GreaterThanOrEqualCase(fieldValue, value)
              [] operator = "lessThanOrEqual" -> LessThanOrEqualCase(fieldValue, value)
              [] operator = "contains" -> ContainsCase(fieldValue, value)
              [] operator = "notContains" -> NotContainsCase(fieldValue, value)
              [] operator = "in" -> InCase(fieldValue, values)
              [] operator = "notIn" -> NotInCase(fieldValue, values)
              [] operator = "isEmpty" -> IsEmptyCase(fieldValue)
              [] operator = "isNotEmpty" -> IsNotEmptyCase(fieldValue)
              [] OTHER -> Bool(FALSE)

RECURSIVE Every(_, _, _)
\* condition.and.every(sub => evaluateCondition(sub, fv)) from index i on:
\* stops at the first false, and a throwing callback ends the call
Every(subs, fv, i) ==
    IF i > Len(subs) THEN Bool(TRUE)
    ELSE LET r == evaluateCondition(subs[i], fv)
         IN IF r = TypeError THEN TypeError
            ELSE IF r.b THEN Every(subs, fv, i + 1) ELSE Bool(FALSE)

RECURSIVE Some(_, _, _)
\* condition.or.some(sub => evaluateCondition(sub, fv)) from index i on
Some(subs, fv, i) ==
    IF i > Len(subs) THEN Bool(FALSE)
    ELSE LET r == evaluateCondition(subs[i], fv)
         IN IF r = TypeError THEN TypeError
            ELSE IF r.b THEN Bool(TRUE) ELSE Some(subs, fv, i + 1)

RECURSIVE evaluateComplexConditionRecursive(_, _)
RECURSIVE EveryRecursive(_, _, _)
RECURSIVE SomeRecursive(_, _, _)
\* evaluateConditionalLogic applied to a sub-condition: dispatch by shape
EvaluateSub(sub, fv) ==
    IF "field" \in DOMAIN sub
    THEN evaluateCondition(sub, fv)
    ELSE evaluateComplexConditionRecursive(sub, fv)

EveryRecursive(subs, fv, i) ==
    IF i > Len(subs) THEN Bool(TRUE)
    ELSE LET r == EvaluateSub(subs[i], fv)
         IN IF r = TypeError THEN TypeError
            ELSE IF r.b THEN EveryRecursive(subs, fv, i + 1) ELSE Bool(FALSE)

SomeRecursive(subs, fv, i) ==
    IF i > Len(subs) THEN Bool(FALSE)
    ELSE LET r == EvaluateSub(subs[i], fv)
         IN IF r = TypeError THEN TypeError
            ELSE IF r.b THEN Bool(TRUE) ELSE SomeRecursive(subs, fv, i + 1)

\* evaluateComplexCondition evaluating its sub-conditions through the
\* shape dispatch, so that nested and / or / not nodes recurse
evaluateComplexConditionRecursive(condition, fv) ==
    IF "and" \in DOMAIN condition THEN EveryRecursive(condition.and, fv, 1)
    ELSE IF "or" \in DOMAIN condition THEN SomeRecursive(condition.or, fv, 1)
    ELSE IF "not" \in DOMAIN condition
    THEN LET r == EvaluateSub(condition.not, fv)
         IN IF r = TypeError THEN TypeError ELSE Bool(~r.b)
    ELSE Bool(FALSE)

\* evaluateComplexCondition testing the length of the lists: an empty `and`
\* or `or` falls through to the final return false
evaluateComplexConditionNonEmpty(condition, fv) ==
    IF "and" \in DOMAIN condition /\ condition.and # <<>>
    THEN Every(condition.and, fv, 1)
    ELSE IF "or" \in DOMAIN condition /\ condition.or # <<>>
    THEN Some(condition.or, fv, 1)
    ELSE IF "not" \in DOMAIN condition
    THEN LET r == evaluateCondition(condition.not, fv)
         IN IF r = TypeError THEN TypeError ELSE Bool(~r.b)
    ELSE Bool(FALSE)

\* an array or an object under `and`, `or`, `not` is truthy, also when empty
evaluateComplexCondition(condition, fv) ==
    IF "and" \in DOMAIN condition THEN Every(condition.and, fv, 1)
    ELSE IF "or" \in DOMAIN condition THEN Some(condition.or, fv, 1)
    ELSE IF "not" \in DOMAIN condition
    THEN LET r == evaluateCondition(condition.not, fv)
         IN IF r = TypeError THEN TypeError ELSE Bool(~r.b)
    ELSE Bool(FALSE)

evaluateConditionalLogic(condition, fv) ==
    IF "field" \in DOMAIN condition
    THEN evaluateCondition(condition, fv)
    ELSE evaluateComplexCondition(condition, fv)

\* the comparison keys of the simple syntax
DollarIn == <<"$", "i", "n">>

DollarNotIn == <<"$", "n", "o", "t", "I", "n">>

DollarGt == <<"$", "g", "t">>

DollarLt == <<"$", "l", "t">>

DollarGte == <<"$", "g", "t", "e">>

DollarLte == <<"$", "l", "t", "e">>

DollarContains == <<"$", "c", "o", "n", "t", "a", "i", "n", "s">>

DollarIsEmpty == <<"$", "i", "s", "E", "m", "p", "t", "y">>

\* key in v, for an object or an array v
HasKey(key, v) ==
    \/ key \in ProtoKeys
    \/ (v.t = "object" /\ key \in DOMAIN v.f)
    \/ (v.t = "array" /\ (key = LengthKey
                           \/ (IsIndex(key) /\ DigitsValue(key) < Len(v.e))))

\* the entry callback reading {$gte: a, $lte: b} as the range a..b
SimpleEntryRange(field, expectedValue, fv) ==
    LET fieldValue == getNestedValue(fv, Str(field))
        Operand(key) == GetProperty(expectedValue, key)
    IN IF IsObjectLike(expectedValue) /\ HasKey(DollarIn, expectedValue)
       THEN CallIncludes(Operand(DollarIn), fieldValue)
       ELSE IF IsObjectLike(expectedValue) /\ HasKey(DollarNotIn, expectedValue)
       THEN LET r == CallIncludes(Operand(DollarNotIn), fieldValue)
            IN IF r = TypeError THEN TypeError ELSE Bool(~r.b)
       ELSE IF IsObjectLike(expectedValue) /\ HasKey(DollarGt, expectedValue)
       THEN Bool(NumLess(NumberOf(Operand(DollarGt)), NumberOf(fieldValue)))
       ELSE IF IsObjectLike(expectedValue) /\ HasKey(DollarLt, expectedValue)
       THEN Bool(NumLess(NumberOf(fieldValue), NumberOf(Operand(DollarLt))))
       ELSE IF IsObjectLike(expectedValue) /\ HasKey(DollarGte, expectedValue)
       THEN Bool(/\ NumLessEq(NumberOf(Operand(DollarGte)), NumberOf(fieldValue))
                 /\ HasKey(DollarLte, expectedValue) =>
                        NumLessEq(NumberOf(fieldValue), NumberOf(Operand(DollarLte))))
       ELSE IF IsObjectLike(expectedValue) /\ HasKey(DollarLte, expectedValue)
       THEN Bool(NumLessEq(NumberOf(fieldValue), NumberOf(Operand(DollarLte))))
       ELSE IF IsObjectLike(expectedValue) /\ HasKey(DollarContains, expectedValue)
       THEN Bool(StringIncludes(StringOf(fieldValue),
                                StringOf(Operand(DollarContains))))
       ELSE IF IsObjectLike(expectedValue) /\ HasKey(DollarIsEmpty, expectedValue)
       THEN LET isEmpty == \/ fieldValue = Null
                           \/ fieldValue = Undefined
                           \/ fieldValue = Str(<<>>)
                           \/ (fieldValue.t = "array" /\ Len(fieldValue.e) = 0)
            IN IF Truthy(Operand(DollarIsEmpty)) THEN Bool(isEmpty) ELSE Bool(~isEmpty)
       ELSE Bool(StrictEquals(fieldValue, expectedValue))

\* the callback of evaluateSimpleCondition on one [field, expectedValue] entry
SimpleEntry(field, expectedValue, fv) ==
    LET fieldValue == getNestedValue(fv, Str(field))
        Operand(key) == GetProperty(expectedValue, key)
    IN IF IsObjectLike(expectedValue) /\ HasKey(DollarIn, expectedValue)
       THEN CallIncludes(Operand(DollarIn), fieldValue)
       ELSE IF IsObjectLike(expectedValue) /\ HasKey(DollarNotIn, expectedValue)
       THEN LET r == CallIncludes(Operand(DollarNotIn), fieldValue)
            IN IF r = TypeError THEN TypeError ELSE Bool(~r.b)
       ELSE IF IsObjectLike(expectedValue) /\ HasKey(DollarGt, expectedValue)
       THEN Bool(NumLess(NumberOf(Operand(DollarGt)), NumberOf(fieldValue)))
       ELSE IF IsObjectLike(expectedValue) /\ HasKey(DollarLt, expectedValue)
       THEN Bool(NumLess(NumberOf(fieldValue), NumberOf(Operand(DollarLt))))
       ELSE IF IsObjectLike(expectedValue) /\ HasKey(DollarGte, expectedValue)
       THEN Bool(NumLessEq(NumberOf(Operand(DollarGte)), NumberOf(fieldValue)))
       ELSE IF IsObjectLike(expectedValue) /\ HasKey(DollarLte, expectedValue)
       THEN Bool(NumLessEq(NumberOf(fieldValue), NumberOf(Operand(DollarLte))))
       ELSE IF IsObjectLike(expectedValue) /\ HasKey(DollarContains, expectedValue)
       THEN Bool(StringIncludes(StringOf(fieldValue),
                                StringOf(Operand(DollarContains))))
       ELSE IF IsObjectLike(expectedValue) /\ HasKey(DollarIsEmpty, expectedValue)
       THEN LET isEmpty == \/ fieldValue = Null
                           \/ fieldValue = Undefined
                           \/ fieldValue = Str(<<>>)
                           \/ (fieldValue.t = "array" /\ Len(fieldValue.e) = 0)
            IN IF Truthy(Operand(DollarIsEmpty)) THEN Bool(isEmpty) ELSE Bool(~isEmpty)
       ELSE Bool(StrictEquals(fieldValue, expectedValue))

RECURSIVE EveryEntry(_, _, _)
\* Object.entries(condition).every(...) from entry i on
EveryEntry(condition, fv, i) ==
    IF i > Len(condition) THEN Bool(TRUE)
    ELSE LET r == SimpleEntry(condition[i].field, condition[i].expected, fv)
         IN IF r = TypeError THEN TypeError
            ELSE IF r.b THEN EveryEntry(condition, fv, i + 1) ELSE Bool(FALSE)

RECURSIVE SomeEntry(_, _, _)
SomeEntry(condition, fv, i) ==
    IF i > Len(condition) THEN Bool(FALSE)
    ELSE LET r == SimpleEntry(condition[i].field, condition[i].expected, fv)
         IN IF r = TypeError THEN TypeError
            ELSE IF r.b THEN Bool(TRUE) ELSE SomeEntry(condition, fv, i + 1)

\* evaluateSimpleCondition joining its entries with some instead of every
evaluateSimpleConditionSome(condition, fv) == SomeEntry(condition, fv, 1)

evaluateSimpleCondition(condition, fv) == EveryEntry(condition, fv, 1)

\* shouldFieldBeVisible consulting visibleWhen before conditional
shouldFieldBeVisibleSimpleFirst(field, fv) ==
    IF "visibleWhen" \in DOMAIN field
    THEN evaluateSimpleCondition(field.visibleWhen, fv)
    ELSE IF "conditional" \in DOMAIN field
    THEN evaluateConditionalLogic(field.conditional, fv)
    ELSE Bool(TRUE)

\* a present `conditional` or `visibleWhen` is an object, hence truthy
shouldFieldBeVisible(field, fv) ==
    IF "conditional" \in DOMAIN field
    THEN evaluateConditionalLogic(field.conditional, fv)
    ELSE IF "visibleWhen" \in DOMAIN field
    THEN evaluateSimpleCondition(field.visibleWhen, fv)
    ELSE Bool(TRUE)

\* shouldFieldBeDisabled consulting disabledWhen before the static flag
shouldFieldBeDisabledWhenFirst(field, fv) ==
    IF "disabledWhen" \in DOMAIN field
    THEN evaluateSimpleCondition(field.disabledWhen, fv)
    ELSE IF "disabled" \in DOMAIN field /\ field.disabled
    THEN Bool(TRUE)
    ELSE Bool(FALSE)

shouldFieldBeDisabled(field, fv) ==
    IF "disabled" \in DOMAIN field /\ field.disabled
    THEN Bool(TRUE)
    ELSE IF "disabledWhen" \in DOMAIN field
    THEN evaluateSimpleCondition(field.disabledWhen, fv)
    ELSE Bool(FALSE)

-----------------------------------------------------------------------------
(* The inputs of the model: snapshots, paths, conditions, descriptors.     *)

\* most sub-conditions of an and / or node
MaxSub == 2

\* most entries of a simple condition built from CoreEntries
MaxEntries == 2

A == <<"a">>

B == <<"b">>

C == <<"c">>

Country == <<"c", "o", "u", "n", "t", "r", "y">>

Age == <<"a", "g", "e">>

Us == <<"u", "s">>

Ca == <<"c", "a">>

Uk == <<"u", "k">>

Eighteen == <<"1", "8">>

\* p.q as a path string
Dot(p, q) == p \o <<".">> \o q

\* an object literal without keys, and a schema record without keys
NoKeys == <<>>

\* sequences over S of length 0..n
RECURSIVE SeqsUpTo(_, _)
SeqsUpTo(S, n) ==
    IF n = 0 THEN {<<>>}
    ELSE SeqsUpTo(S, n - 1)
         \cup {Append(q, x) : q \in {r \in SeqsUpTo(S, n - 1) : Len(r) = n - 1}, x \in S}

\* what one form field may hold; identities 1.. are objects of the snapshot
FieldValues ==
    { Undefined, Null, NaN, Bool(TRUE), Bool(FALSE),
      Str(<<>>), Str(Us), Str(Eighteen),
      Num(0), Num(15), Num(18), Num(21),
      Arr(1, <<>>), Arr(1, <<Str(Us)>>), Arr(1, <<Num(18), NaN>>),
      Obj(1, NoKeys) }

\* what a.b may hold
NestedValues ==
    { Null, Num(5), Str(Us), Obj(2, NoKeys), Obj(2, C :> Num(18)) }

Snapshots ==
    {Obj(0, NoKeys)}
    \cup {Obj(0, A :> v) : v \in FieldValues}
    \cup {Obj(0, A :> Obj(1, B :> w)) : w \in NestedValues}
    \cup {Obj(0, (Country :> Str(x)) @@ (Age :> y)) :
             x \in {Us, Ca, Uk}, y \in {Num(15), Num(18), Str(<<"2", "1">>)}}

\* path strings, well-formed and malformed
Paths ==
    { A, Dot(A, B), Dot(Dot(A, B), C), Dot(A, LengthKey), Dot(A, <<"0">>),
      Dot(A, ToStringKey), Country, Age, <<>>, Dot(A, <<>>), Dot(A, Dot(<<>>, B)) }

\* the `field` key of a condition: a path, or not written
FieldParts == {NoKeys} \cup {[field |-> Str(p)] : p \in Paths}

\* the `value` key of a condition; Arr(1, ..) is the snapshot's own array
ValueParts ==
    {NoKeys}
    \cup {[value |-> v] :
             v \in { Str(Us), Str(<<"u">>), Str(<<>>), Str(Eighteen), Num(0), Num(18),
                     Null, Bool(TRUE), NaN, Arr(1, <<Str(Us)>>), Arr(10, <<>>) }}

\* the `values` key of a condition
ValuesParts ==
    {NoKeys}
    \cup {[values |-> v] :
             v \in { Arr(11, <<>>), Arr(11, <<Str(Us), Str(Ca)>>),
                     Arr(11, <<Num(18), NaN, Null, Undefined>>) }}

Operators ==
    { "equals", "notEquals", "greaterThan", "lessThan", "greaterThanOrEqual",
      "lessThanOrEqual", "contains", "notContains", "in", "notIn", "isEmpty",
      "isNotEmpty" }

\* the `operator` key: one of the fixed set, one outside it, or not written
OperatorParts ==
    {NoKeys} \cup {[operator |-> o] : o \in Operators \cup {"matches", "Equals"}}

\* the operators that read `values`, and those that read neither operand
ValuesOperators == {"in", "notIn"}

NullaryOperators == {"isEmpty", "isNotEmpty"}

Conditions ==
    {f @@ o @@ v : f \in FieldParts, v \in ValueParts,
                   o \in {x \in OperatorParts :
                            x = NoKeys \/ x.operator \notin ValuesOperators \cup NullaryOperators}}
    \cup {f @@ o @@ v : f \in FieldParts, v \in ValuesParts,
                        o \in {x \in OperatorParts :
                                 x # NoKeys /\ x.operator \in ValuesOperators \cup {"matches"}}}
    \cup {f @@ o : f \in FieldParts,
                   o \in {x \in OperatorParts :
                            x # NoKeys /\ x.operator \in NullaryOperators}}

\* the conditions sub-condition lists are built from
AtomicSubs ==
    { [field |-> Str(A), operator |-> "isNotEmpty"],
      [field |-> Str(Country), operator |-> "equals", value |-> Str(Us)],
      [field |-> Str(Age), operator |-> "greaterThanOrEqual", value |-> Num(18)],
      [field |-> Str(A), operator |-> "matches", value |-> Str(Us)] }

\* sub-conditions outside the declared type: and / or / not nodes, and a
\* condition whose field is not written
NestedSubs ==
    { [and |-> << [field |-> Str(A), operator |-> "isNotEmpty"],
                  [field |-> Str(A), operator |-> "contains", value |-> Str(<<"u">>)] >>],
      [not |-> [field |-> Str(A), operator |-> "isEmpty"]],
      [operator |-> "isEmpty"] }

ComplexConditions ==
    {NoKeys}
    \cup {[and |-> q] : q \in SeqsUpTo(AtomicSubs \cup NestedSubs, MaxSub)}
    \cup {[or |-> q] : q \in SeqsUpTo(AtomicSubs \cup NestedSubs, MaxSub)}
    \cup {[not |-> c] : c \in AtomicSubs \cup NestedSubs}
    \cup {[and |-> <<c>>, or |-> <<d>>, not |-> c] : c, d \in AtomicSubs}

\* expected values of simple-syntax entries; identities 20.. are schema objects
PlainExpected ==
    { Str(Us), Str(Ca), Str(Eighteen), Num(18), Bool(TRUE), Null, Undefined,
      Arr(1, <<Str(Us)>>), Arr(20, <<>>), Obj(20, NoKeys), Obj(20, A :> Num(1)) }

OperatorExpected ==
    { Obj(20, DollarIn :> Arr(21, <<Str(Us), Str(Ca)>>)),
      Obj(20, DollarIn :> Arr(21, <<>>)),
      Obj(20, DollarNotIn :> Arr(21, <<Str(Us), Null>>)),
      Obj(20, DollarGt :> Num(18)),
      Obj(20, DollarLt :> Num(18)),
      Obj(20, DollarGte :> Num(18)),
      Obj(20, DollarLte :> Str(Eighteen)),
      Obj(20, DollarContains :> Str(<<"u">>)),
      Obj(20, DollarIsEmpty :> Bool(TRUE)),
      Obj(20, DollarIsEmpty :> Bool(FALSE)),
      Obj(20, (DollarGte :> Num(18)) @@ (DollarLte :> Num(15))),
      Obj(20, (DollarGte :> Num(18)) @@ (DollarLte :> Num(21))),
      Obj(20, (DollarIn :> Arr(21, <<Str(Us), Str(Ca)>>)) @@ (DollarIsEmpty :> Bool(TRUE))),
      Obj(20, (DollarLt :> Num(18)) @@ (DollarContains :> Str(<<"u">>))),
      Obj(20, DollarContains :> Str(<<"1">>)),
      Obj(20, DollarIn :> Str(Us)),
      Obj(20, DollarIn :> Null) }

Entries ==
    {[field |-> f, expected |-> e] :
        f \in {A, Dot(A, B), Country, Age}, e \in PlainExpected \cup OperatorExpected}

\* the entries longer simple conditions are built from
CoreEntries ==
    { [field |-> Country, expected |-> Obj(20, DollarIn :> Arr(21, <<Str(Us), Str(Ca)>>))],
      [field |-> Country, expected |-> Str(Us)],
      [field |-> Age, expected |-> Obj(20, DollarGte :> Num(18))],
      [field |-> Age, expected |-> Num(18)],
      [field |-> A, expected |-> Obj(20, DollarIsEmpty :> Bool(FALSE))],
      [field |-> A, expected |-> Obj(20, DollarIn :> Null)] }

\* an object literal has each key once
SimpleConditions ==
    {<<e>> : e \in Entries}
    \cup {q \in SeqsUpTo(CoreEntries, MaxEntries) :
             \A i, j \in 1..Len(q) : i # j => q[i].field # q[j].field}

\* the keys of a field descriptor the resolvers read
ConditionalParts ==
    {NoKeys}
    \cup {[conditional |-> c] :
             c \in AtomicSubs
                   \cup {[and |-> <<>>], [or |-> <<>>], NoKeys}
                   \cup {[not |-> d] : d \in AtomicSubs}}

WhenConditions ==
    { <<>>,
      << [field |-> Country, expected |-> Obj(20, DollarIn :> Arr(21, <<Str(Us), Str(Ca)>>))] >>,
      << [field |-> Country, expected |-> Str(Uk)] >>,
      << [field |-> A, expected |-> Obj(20, DollarIsEmpty :> Bool(TRUE))],
         [field |-> Age, expected |-> Obj(20, DollarLt :> Num(18))] >>,
      << [field |-> Age, expected |-> Obj(20, DollarGte :> Num(18))] >> }

VisibleWhenParts == {NoKeys} \cup {[visibleWhen |-> w] : w \in WhenConditions}

DisabledWhenParts == {NoKeys} \cup {[disabledWhen |-> w] : w \in WhenConditions}

DisabledParts == {NoKeys, [disabled |-> TRUE], [disabled |-> FALSE]}

FieldDescriptors ==
    {c @@ v @@ w @@ d : c \in ConditionalParts, v \in VisibleWhenParts,
                        w \in DisabledWhenParts, d \in DisabledParts}

-----------------------------------------------------------------------------
(* The state: the values snapshot the form-state layer holds, the call     *)
(* made on the engine and what it returned.  The functions keep no state,  *)
(* so a behaviour is one call on one snapshot.                             *)

NoCall == [fn |-> "none"]

Init ==
    /\ formValues \in Snapshots
    /\ call = NoCall
    /\ result = Undefined
    /\ NoComponents

GetNestedValue ==
    /\ call = NoCall
    /\ \E path \in {Str(p) : p \in Paths} \cup {Undefined} :
        /\ call' = [fn |-> "getNestedValue", path |-> path]
        /\ result' = getNestedValue(formValues, path)
        /\ UNCHANGED <<formValues, components>>

EvaluateCondition ==
    /\ call = NoCall
    /\ \E condition \in Conditions :
        /\ call' = [fn |-> "evaluateCondition", condition |-> condition]
        /\ result' = evaluateCondition(condition, formValues)
        /\ UNCHANGED <<formValues, components>>

EvaluateComplexCondition ==
    /\ call = NoCall
    /\ \E condition \in ComplexConditions :
        /\ call' = [fn |-> "evaluateComplexCondition", condition |-> condition]
        /\ result' = evaluateComplexCondition(condition, formValues)
        /\ UNCHANGED <<formValues, components>>

EvaluateConditionalLogic ==
    /\ call = NoCall
    /\ \E condition \in AtomicSubs \cup ComplexConditions :
        /\ call' = [fn |-> "evaluateConditionalLogic", condition |-> condition]
        /\ result' = evaluateConditionalLogic(condition, formValues)
        /\ UNCHANGED <<formValues, components>>

EvaluateSimpleCondition ==
    /\ call = NoCall
    /\ \E condition \in SimpleConditions :
        /\ call' = [fn |-> "evaluateSimpleCondition", condition |-> condition]
        /\ result' = evaluateSimpleCondition(condition, formValues)
        /\ UNCHANGED <<formValues, components>>

ShouldFieldBeVisible ==
    /\ call = NoCall
    /\ \E field \in FieldDescriptors :
        /\ call' = [fn |-> "shouldFieldBeVisible", field |-> field]
        /\ result' = shouldFieldBeVisible(field, formValues)
        /\ UNCHANGED <<formValues, components>>

ShouldFieldBeDisabled ==
    /\ call = NoCall
    /\ \E field \in FieldDescriptors :
        /\ call' = [fn |-> "shouldFieldBeDisabled", field |-> field]
        /\ result' = shouldFieldBeDisabled(field, formValues)
        /\ UNCHANGED <<formValues, components>>

Next ==
    \/ GetNestedValue
    \/ EvaluateCondition
    \/ EvaluateComplexCondition
    \/ EvaluateConditionalLogic
    \/ EvaluateSimpleCondition
    \/ ShouldFieldBeVisible
    \/ ShouldFieldBeDisabled

Spec == Init /\ [][Next]_vars

-----------------------------------------------------------------------------
(* Properties *)

\* the sub-condition is an atomic condition as the schema types declare it
IsAtomic(c) == "field" \in DOMAIN c

AllAtomic(q) == \A i \in 1..Len(q) : IsAtomic(q[i])

\* which of and / or / not the node carries
Combinators(c) == DOMAIN c \cap {"and", "or", "not"}

IsTrue(c) == evaluateCondition(c, formValues) = Bool(TRUE)

\* C1: shouldFieldBeVisible returns evaluateConditionalLogic of `conditional`
\* when it is present, whatever visibleWhen says; otherwise
\* evaluateSimpleCondition of a present visibleWhen; otherwise true.
C1_VisibilityPrecedence ==
    call.fn = "shouldFieldBeVisible" =>
        LET field == call.field
        IN result =
             IF "conditional" \in DOMAIN field
             THEN evaluateConditionalLogic(field.conditional, formValues)
             ELSE IF "visibleWhen" \in DOMAIN field
             THEN evaluateSimpleCondition(field.visibleWhen, formValues)
             ELSE Bool(TRUE)

\* a field whose conditional holds and whose visibleWhen does not is visible
C1_Witness ==
    /\ call.fn = "shouldFieldBeVisible"
    /\ {"conditional", "visibleWhen"} \subseteq DOMAIN call.field
    /\ evaluateSimpleCondition(call.field.visibleWhen, formValues) = Bool(FALSE)
    /\ result = Bool(TRUE)

\* C2: shouldFieldBeDisabled returns true for a static disabled: true whatever
\* disabledWhen and the values are; otherwise a present disabledWhen decides
\* through the simple syntax; otherwise false.  `conditional` plays no part.
C2_DisablementPrecedence ==
    call.fn = "shouldFieldBeDisabled" =>
        LET field == call.field
        IN result =
             IF "disabled" \in DOMAIN field /\ field.disabled
             THEN Bool(TRUE)
             ELSE IF "disabledWhen" \in DOMAIN field
             THEN evaluateSimpleCondition(field.disabledWhen, formValues)
             ELSE Bool(FALSE)

\* a statically disabled field is disabled although its disabledWhen does
\* not hold and its conditional is present
C2_Witness ==
    /\ call.fn = "shouldFieldBeDisabled"
    /\ {"disabled", "disabledWhen", "conditional"} \subseteq DOMAIN call.field
    /\ call.field.disabled
    /\ evaluateSimpleCondition(call.field.disabledWhen, formValues) = Bool(FALSE)
    /\ result = Bool(TRUE)

\* C3: over atomic sub-conditions, an `and` node is true exactly when every
\* sub-condition is true (so {and: []} is true), an `or` node exactly when
\* at least one is true (so {or: []} is false), and a `not` node is the
\* negation of its sub-condition.
C3_Combinators ==
    call.fn = "evaluateComplexCondition" =>
        LET c == call.condition
        IN /\ (Combinators(c) = {"and"} /\ AllAtomic(c.and)) =>
                 result = Bool(\A i \in 1..Len(c.and) : IsTrue(c.and[i]))
           /\ (Combinators(c) = {"or"} /\ AllAtomic(c.or)) =>
                 result = Bool(\E i \in 1..Len(c.or) : IsTrue(c.or[i]))
           /\ (Combinators(c) = {"not"} /\ IsAtomic(c.not)) =>
                 result = Bool(~IsTrue(c.not))
           /\ (Combinators(c) = {"and"} /\ c.and = <<>>) => result = Bool(TRUE)
           /\ (Combinators(c) = {"or"} /\ c.or = <<>>) => result = Bool(FALSE)

\* the empty conjunction is true
C3_Witness ==
    /\ call.fn = "evaluateComplexCondition"
    /\ Combinators(call.condition) = {"and"}
    /\ call.condition.and = <<>>
    /\ result = Bool(TRUE)

\* the sub-condition is an and / or / not node over atomic conditions
IsNode(c) ==
    /\ ~IsAtomic(c)
    /\ Combinators(c) # {}
    /\ ("and" \in DOMAIN c => AllAtomic(c.and))
    /\ ("or" \in DOMAIN c => AllAtomic(c.or))
    /\ ("not" \in DOMAIN c => IsAtomic(c.not))

\* the sub-conditions of a node with one combinator, as a list
SubsOf(c) ==
    IF "and" \in DOMAIN c THEN c.and
    ELSE IF "or" \in DOMAIN c THEN c.or
    ELSE <<c.not>>

C5_EmptinessNegation ==
    ( /\ call.fn = "evaluateCondition"
      /\ IsAtomic(call.condition)
      /\ OperatorOf(call.condition) \in {"isEmpty", "isNotEmpty"} )
    => LET c == call.condition
           v == getNestedValue(formValues, c.field)
           empty == v \in {Undefined, Null, Str(<<>>)} \/ (v.t = "array" /\ v.e = <<>>)
           other == IF c.operator = "isEmpty" THEN "isNotEmpty" ELSE "isEmpty"
       IN /\ result = Bool(IF c.operator = "isEmpty" THEN empty ELSE ~empty)
          /\ evaluateCondition([c EXCEPT !.operator = other], formValues) = Bool(~result.b)

\* isNotEmpty on the number 0 is true
C5_Witness ==
    /\ call.fn = "evaluateCondition"
    /\ IsAtomic(call.condition)
    /\ OperatorOf(call.condition) = "isNotEmpty"
    /\ getNestedValue(formValues, call.condition.field) = Num(0)
    /\ result = Bool(TRUE)

\* own property lookup on a traversable container: an object's own keys, an
\* array's indices and length
HasOwn(cur, key) ==
    \/ (cur.t = "object" /\ key \in DOMAIN cur.f)
    \/ (cur.t = "array" /\ (key = LengthKey
                             \/ (IsIndex(key) /\ DigitsValue(key) < Len(cur.e))))

RECURSIVE PathBroken(_, _, _)
\* some segment keys[i..] is absent, or the value reached before it is not a
\* traversable container
PathBroken(cur, keys, i) ==
    IF i > Len(keys) THEN FALSE
    ELSE IF ~HasOwn(cur, keys[i]) THEN TRUE
    ELSE PathBroken(GetProperty(cur, keys[i]), keys, i + 1)

\* C6: getNestedValue never throws on a path string, and returns undefined
\* whenever a segment of the path is absent or an intermediate segment is
\* not a traversable container.
C6_UndefinedOnBrokenPath ==
    (call.fn = "getNestedValue" /\ call.path.t = "string") =>
        /\ result # TypeError
        /\ PathBroken(formValues, Split(call.path.s), 1) => result = Undefined

\* C7: evaluateCondition with an operator outside the fixed set, or with no
\* operator, returns false and never throws, also when the path is missing.
C7_UnknownOperatorIsFalse ==
    (call.fn = "evaluateCondition" /\ OperatorOf(call.condition) \notin Operators)
    => result = Bool(FALSE)

\* C8: the four ordering operators compare Number(field value) with
\* Number(condition.value), and are false whenever either is NaN, as for an
\* absent field or a non-numeric string.
C8_NumericComparison ==
    ( /\ call.fn = "evaluateCondition"
      /\ IsAtomic(call.condition)
      /\ OperatorOf(call.condition) \in
            {"greaterThan", "lessThan", "greaterThanOrEqual", "lessThanOrEqual"} )
    => LET c == call.condition
           v == getNestedValue(formValues, c.field)
           x == NumberOf(v)
           y == NumberOf(Prop(c, "value"))
       IN /\ result =
               Bool(/\ x.t = "number"
                    /\ y.t = "number"
                    /\ CASE c.operator = "greaterThan" -> x.n > y.n
                         [] c.operator = "lessThan" -> x.n < y.n
                         [] c.operator = "greaterThanOrEqual" -> x.n >= y.n
                         [] c.operator = "lessThanOrEqual" -> x.n <= y.n)
          /\ (v = Undefined \/ v = Str(Us) \/ Prop(c, "value") \in {Undefined, Str(Us), NaN})
                => result = Bool(FALSE)

\* the string "18" is greater than or equal to the number 18
C8_Witness ==
    /\ call.fn = "evaluateCondition"
    /\ IsAtomic(call.condition)
    /\ OperatorOf(call.condition) = "greaterThanOrEqual"
    /\ getNestedValue(formValues, call.condition.field) = Str(Eighteen)
    /\ Prop(call.condition, "value") = Num(18)
    /\ result = Bool(TRUE)

\* C9: contains is a substring test on a string, a membership test on an
\* array and false otherwise; in is membership in condition.values and false
\* without values; notContains and notIn are their exact negations.
C9_ContainmentMembership ==
    (call.fn = "evaluateCondition" /\ IsAtomic(call.condition))
    => LET c == call.condition
           v == getNestedValue(formValues, c.field)
           contains == IF v.t = "string" THEN StringIncludes(v.s, StringOf(Prop(c, "value")))
                       ELSE IF v.t = "array" THEN ArrayIncludes(v.e, Prop(c, "value"))
                       ELSE FALSE
           isIn == "values" \in DOMAIN c /\ ArrayIncludes(c.values.e, v)
           As(operator) == evaluateCondition([c EXCEPT !.operator = operator], formValues)
       IN /\ OperatorOf(c) = "contains" => result = Bool(contains)
          /\ OperatorOf(c) = "notContains" =>
                result = Bool(~contains) /\ As("contains") = Bool(~result.b)
          /\ OperatorOf(c) = "in" => result = Bool(isIn)
          /\ OperatorOf(c) = "notIn" =>
                result = Bool(~isIn) /\ As("in") = Bool(~result.b)

\* notContains on a number, neither a string nor an array, is true
C9_Witness ==
    /\ call.fn = "evaluateCondition"
    /\ IsAtomic(call.condition)
    /\ OperatorOf(call.condition) = "notContains"
    /\ getNestedValue(formValues, call.condition.field).t = "number"
    /\ result = Bool(TRUE)

\* the entry's expected value is no mapping, or is {$in: list}
IsPlainOrIn(e) ==
    \/ e.expected.t # "object"
    \/ (DOMAIN e.expected.f = {DollarIn} /\ e.expected.f[DollarIn].t = "array")

EntryHolds(e) ==
    LET v == getNestedValue(formValues, Str(e.field))
    IN IF e.expected.t = "object"
       THEN ArrayIncludes(e.expected.f[DollarIn].e, v)
       ELSE StrictEquals(v, e.expected)

CountryInUsCa ==
    << [field |-> Country, expected |-> Obj(20, DollarIn :> Arr(21, <<Str(Us), Str(Ca)>>))] >>

\* C10: evaluateSimpleCondition is true exactly when every entry holds (the
\* empty mapping is true): a plain expected value holds iff the value at
\* the path is strictly equal to it, {$in: list} iff it is a member of
\* list.  A field with visibleWhen {country: {$in: ["us", "ca"]}} is hidden
\* for country "uk" and visible for country "ca".
C10_SimpleIsConjunction ==
    /\ ( /\ call.fn = "evaluateSimpleCondition"
         /\ \A i \in 1..Len(call.condition) : IsPlainOrIn(call.condition[i]) )
       => result = Bool(\A i \in 1..Len(call.condition) : EntryHolds(call.condition[i]))
    /\ ( /\ call.fn = "shouldFieldBeVisible"
         /\ "conditional" \notin DOMAIN call.field
         /\ "visibleWhen" \in DOMAIN call.field
         /\ call.field.visibleWhen = CountryInUsCa )
       => /\ getNestedValue(formValues, Str(Country)) = Str(Uk) => result = Bool(FALSE)
          /\ getNestedValue(formValues, Str(Country)) = Str(Ca) => result = Bool(TRUE)

\* two entries of which the first holds and the second does not
C10_Witness ==
    /\ call.fn = "evaluateSimpleCondition"
    /\ Len(call.condition) = 2
    /\ \A i \in 1..2 : IsPlainOrIn(call.condition[i])
    /\ EntryHolds(call.condition[1])
    /\ ~EntryHolds(call.condition[2])
    /\ result = Bool(FALSE)

-----------------------------------------------------------------------------
(* Validation (the module imported as ../utils/validation).                *)
(*                                                                         *)
(* A message is the sequence of its pieces: literal text and the           *)
(* placeholders ${min}, ${max} that yup replaces by the parameters of the  *)
(* failed test.  A compiled yup schema is the record of its type, the      *)
(* tests added to it in order, and the message of required() when that     *)
(* was called.  An optional argument is a sequence of length 0 or 1.       *)

Absent == <<>>

Present(x) == <<x>>

MessageKeys ==
    {"required", "minLength", "maxLength", "min", "max", "pattern", "email",
     "custom", "minItems", "maxItems"}

DEFAULT_VALIDATION_MESSAGES ==
    [key \in MessageKeys |->
        CASE key = "required" -> <<"This field is required">>
          [] key = "minLength" -> <<"Must be at least ", "${min}", " characters">>
          [] key = "maxLength" -> <<"Must be no more than ", "${max}", " characters">>
          [] key = "min" -> <<"Must be at least ", "${min}">>
          [] key = "max" -> <<"Must be no more than ", "${max}">>
          [] key = "pattern" -> <<"Invalid format">>
          [] key = "email" -> <<"Must be a valid email address">>
          [] key = "custom" -> <<"Invalid value">>
          [] key = "minItems" -> <<"Must have at least ", "${min}", " items">>
          [] key = "maxItems" -> <<"Must have no more than ", "${max}", " items">>]

\* messages?.[key]: undefined and "" are both falsy and both the empty message
MessageAt(messages, key) ==
    IF messages # Absent /\ key \in DOMAIN messages[1] THEN messages[1][key]
    ELSE <<>>

\* a || b on messages
OrElse(a, b) == IF a # <<>> THEN a ELSE b

getValidationMessage(key, fieldMessages, globalMessages) ==
    LET message ==
            OrElse(MessageAt(fieldMessages, key),
                   OrElse(MessageAt(globalMessages, key),
                          IF key \in DOMAIN DEFAULT_VALIDATION_MESSAGES
                          THEN DEFAULT_VALIDATION_MESSAGES[key] ELSE <<>>))
    IN  OrElse(message, <<"Validation failed for ", key>>)

\* the key a placeholder names, "" for literal text
PlaceholderKey(token) ==
    CASE token = "${min}" -> "min"
      [] token = "${max}" -> "max"
      [] OTHER -> ""

RECURSIVE Interpolate(_, _)
\* yup's message formatting: every ${key} becomes the printed parameter
Interpolate(message, params) ==
    IF message = <<>> THEN <<>>
    ELSE (IF PlaceholderKey(Head(message)) = "" THEN <<Head(message)>>
          ELSE IF PlaceholderKey(Head(message)) \in DOMAIN params
               THEN NumberToString(params[PlaceholderKey(Head(message))])
          ELSE <<"undefined">>)
         \o Interpolate(Tail(message), params)

\* yup.string(), yup.number(), ... : a schema with no test yet
YupSchema(type) == [type |-> type, tests |-> <<>>, required |-> Absent]

\* schema.test({name, params, message, ...}); `arg` is the pattern or the
\* custom predicate the test closes over
YupTest(name, params, arg, message) ==
    [name |-> name, params |-> params, arg |-> arg, message |-> message]

\* Schema.test(): a test replaces the earlier test of its name
AddTest(schema, test) ==
    [schema EXCEPT
        !.tests = Append(SelectSeq(@, LAMBDA t : t.name # test.name), test)]

\* schema.required(message): undefined and null are refused with the
\* message, and a string schema also gets the test that refuses ""
YupRequired(schema, message) ==
    LET next == [schema EXCEPT !.required = Present(message)]
    IN  IF schema.type = "string"
        THEN AddTest(next, YupTest("required", NoKeys, "", message))
        ELSE next

\* the ten rule branches of applyValidationRules, in the order of the code
StringRuleMinLength(schema, rules, messages) ==
    IF schema.type = "string" /\ "minLength" \in DOMAIN rules
    THEN AddTest(schema, YupTest("min", [min |-> rules.minLength], "",
                    getValidationMessage("minLength", messages, Absent)))
    ELSE schema

StringRuleMaxLength(schema, rules, messages) ==
    IF schema.type = "string" /\ "maxLength" \in DOMAIN rules
    THEN AddTest(schema, YupTest("max", [max |-> rules.maxLength], "",
                    getValidationMessage("maxLength", messages, Absent)))
    ELSE schema

StringRulePattern(schema, rules, messages) ==
    IF schema.type = "string" /\ "pattern" \in DOMAIN rules /\ rules.pattern # ""
    THEN AddTest(schema, YupTest("matches", NoKeys, rules.pattern,
                    getValidationMessage("pattern", messages, Absent)))
    ELSE schema

StringRuleEmail(schema, rules, messages) ==
    IF schema.type = "string" /\ "email" \in DOMAIN rules /\ rules.email
    THEN AddTest(schema, YupTest("email", NoKeys, "",
                    getValidationMessage("email", messages, Absent)))
    ELSE schema

NumberRuleMin(schema, rules, messages) ==
    IF schema.type = "number" /\ "min" \in DOMAIN rules
    THEN AddTest(schema, YupTest("min", [min |-> rules.min], "",
                    getValidationMessage("min", messages, Absent)))
    ELSE schema

NumberRuleMax(schema, rules, messages) ==
    IF schema.type = "number" /\ "max" \in DOMAIN rules
    THEN AddTest(schema, YupTest("max", [max |-> rules.max], "",
                    getValidationMessage("max", messages, Absent)))
    ELSE schema

ArrayRuleMinItems(schema, rules, messages) ==
    IF schema.type = "array" /\ "minItems" \in DOMAIN rules
    THEN AddTest(schema, YupTest("min", [min |-> rules.minItems], "",
                    getValidationMessage("minItems", messages, Absent)))
    ELSE schema

ArrayRuleMaxItems(schema, rules, messages) ==
    IF schema.type = "array" /\ "maxItems" \in DOMAIN rules
    THEN AddTest(schema, YupTest("max", [max |-> rules.maxItems], "",
                    getValidationMessage("maxItems", messages, Absent)))
    ELSE schema

RuleCustom(schema, rules, messages) ==
    IF "custom" \in DOMAIN rules
    THEN AddTest(schema, YupTest("custom", NoKeys, rules.custom,
                    getValidationMessage("custom", messages, Absent)))
    ELSE schema

applyValidationRules(schema, rules, messages) ==
    RuleCustom(
      ArrayRuleMaxItems(
        ArrayRuleMinItems(
          NumberRuleMax(
            NumberRuleMin(
              StringRuleEmail(
                StringRulePattern(
                  StringRuleMaxLength(
                    StringRuleMinLength(schema, rules, messages),
                    rules, messages),
                  rules, messages),
                rules, messages),
              rules, messages),
            rules, messages),
          rules, messages),
        rules, messages),
      rules, messages)

\* the switch on field.type
BaseSchema(field) ==
    LET type == IF "type" \in DOMAIN field THEN field.type ELSE "undefined"
    IN  CASE type \in {"text", "email", "password", "url", "tel", "textarea"} ->
               YupSchema("string")
          [] type = "number" -> YupSchema("number")
          [] type = "checkbox" -> YupSchema("boolean")
          [] type \in {"date", "datetime-local", "time"} -> YupSchema("date")
          [] type \in {"select", "radio"} -> YupSchema("mixed")
          [] type = "file" -> YupSchema("mixed")
          [] type = "array" -> YupSchema("array")
          [] type = "object" -> YupSchema("object")
          [] OTHER -> YupSchema("mixed")

\* field.validationMessages as an optional argument
FieldMessages(field) ==
    IF "validationMessages" \in DOMAIN field
    THEN Present(field.validationMessages) ELSE Absent

\* field.required || field.validation?.required
RequiredFlag(field) ==
    \/ Truthy(Prop(field, "required"))
    \/ "validation" \in DOMAIN field /\ Truthy(Prop(field.validation, "required"))

createFieldValidationSchema(field, customMessages) ==
    LET base == BaseSchema(field)
        ruled ==
            IF "validation" \in DOMAIN field
            THEN applyValidationRules(base, field.validation,
                    IF "validationMessages" \in DOMAIN field
                    THEN FieldMessages(field) ELSE customMessages)
            ELSE base
    IN  IF RequiredFlag(field)
        THEN YupRequired(ruled,
                getValidationMessage("required", FieldMessages(field), customMessages))
        ELSE ruled

\* rules.custom: the predicates a schema author may write.  `all` is the
\* second argument the predicate is called with
Start == <<"s", "t", "a", "r", "t">>

End == <<"e", "n", "d">>

Taken == <<"a", "b">>

CustomPredicates ==
    {"acceptsAll", "rejectsAll", "returnsNothing", "notTaken", "throws",
     "afterStart"}

\* the value the predicate returns, or TypeError when it throws
CallCustom(predicate, value, all) ==
    CASE predicate = "acceptsAll" -> Bool(TRUE)
      [] predicate = "rejectsAll" -> Bool(FALSE)
      [] predicate = "returnsNothing" -> Undefined
      [] predicate = "notTaken" ->
           \* async (value) => isUnique(value) || "Username is already taken"
           IF value # Str(Taken) THEN Bool(TRUE)
           ELSE Str(<<"Username is already taken">>)
      [] predicate = "throws" -> TypeError
      [] predicate = "afterStart" ->
           \* (value, all) => value > all.start || "Must be after start"
           IF all.t \in {"undefined", "null"} THEN TypeError
           ELSE IF NumLess(NumberOf(GetProperty(all, Start)), NumberOf(value))
                THEN Bool(TRUE)
           ELSE Str(<<"Must be after start">>)

\* the test function applyValidationRules registers under the name custom:
\* result = await rules.custom(value); a boolean result is the verdict and
\* every other result is false.  TypeError when the await throws
CustomTest(predicate, value) ==
    LET r == CallCustom(predicate, value, Undefined)
    IN  IF r = TypeError THEN TypeError
        ELSE IF r.t = "boolean" THEN r
        ELSE Bool(FALSE)

\* new RegExp(rules.pattern).test(s) for the patterns of the model
DigitsPattern == "^[0-9]+$"

PatternMatches(pattern, s) ==
    CASE pattern = DigitsPattern -> s # <<>> /\ \A i \in 1..Len(s) : s[i] \in Digits

\* yup's email expression on the strings of the model (letters, digits and
\* @): a non-empty local part, one @, a non-empty domain
IsEmail(s) ==
    \E i \in 2..(Len(s) - 1) :
        /\ s[i] = "@"
        /\ \A j \in 1..Len(s) : j # i => s[j] # "@"

\* the longest run of decimal digits s starts with
RECURSIVE DigitPrefix(_)
DigitPrefix(s) ==
    IF s = <<>> \/ Head(s) \notin Digits THEN <<>>
    ELSE <<Head(s)>> \o DigitPrefix(Tail(s))

\* parseFloat(s) on the strings of the model
ParseFloat(s) ==
    IF DigitPrefix(s) = <<>> THEN NaN ELSE Num(DigitsValue(DigitPrefix(s)))

\* Schema.cast of a value that is not undefined: the transform of the type
YupCast(type, v) ==
    CASE v.t \in {"undefined", "null"} -> v
      [] type = "string" ->
           IF v.t \in {"string", "array", "object"} THEN v ELSE Str(StringOf(v))
      [] type = "number" ->
           IF v.t = "string"
           THEN (IF v.s = <<>> THEN NaN ELSE StringToNumber(v.s))
           ELSE IF v.t \in {"number", "NaN"} THEN v
           ELSE ParseFloat(StringOf(v))
      [] OTHER -> v

\* the type check of a value that is not undefined or null
TypeCheck(type, v) ==
    CASE type = "string" -> v.t = "string"
      [] type = "number" -> v.t = "number"
      [] type = "boolean" -> v.t = "boolean"
      [] type = "array" -> v.t = "array"
      [] type = "object" -> v.t = "object"
      [] type = "mixed" -> TRUE

\* ${path} in yup's own messages
PathLabel(path) == IF path = <<>> THEN <<"this">> ELSE path

YupError(path, message, params) ==
    [path |-> path, message |-> Interpolate(message, params)]

\* the tests every schema runs first (typeError, nullable, optionality); at
\* most one fails, and the tests added later run only when none does
InternalErrors(schema, v, path) ==
    IF v.t = "null"
    THEN << YupError(path,
              IF schema.required # Absent THEN schema.required[1]
              ELSE PathLabel(path) \o <<" cannot be null">>, NoKeys) >>
    ELSE IF v.t = "undefined"
    THEN (IF schema.required # Absent
          THEN << YupError(path, schema.required[1], NoKeys) >>
          ELSE <<>>)
    ELSE IF ~TypeCheck(schema.type, v)
    THEN << YupError(path,
              PathLabel(path) \o <<" must be a ", schema.type, " type">>,
              NoKeys) >>
    ELSE <<>>

\* a min test that refuses the bound itself
TestPassesExclusiveMin(schema, test, v) ==
    \/ v.t \in {"undefined", "null"}
    \/ CASE test.name = "min" ->
              IF schema.type = "string" THEN Len(v.s) > test.params.min
              ELSE IF schema.type = "number" THEN v.n > test.params.min
              ELSE Len(v.e) > test.params.min
         [] test.name = "max" ->
              IF schema.type = "string" THEN Len(v.s) <= test.params.max
              ELSE IF schema.type = "number" THEN v.n <= test.params.max
              ELSE Len(v.e) <= test.params.max
         [] test.name = "matches" -> PatternMatches(test.arg, v.s)
         [] test.name = "email" -> v.s = <<>> \/ IsEmail(v.s)
         [] test.name = "required" -> v.s # <<>>

\* one synchronous test on a cast value that passed the internal tests
\* (every one of them skips an absent value)
TestPasses(schema, test, v) ==
    \/ v.t \in {"undefined", "null"}
    \/ CASE test.name = "min" ->
              IF schema.type = "string" THEN Len(v.s) >= test.params.min
              ELSE IF schema.type = "number" THEN v.n >= test.params.min
              ELSE Len(v.e) >= test.params.min
         [] test.name = "max" ->
              IF schema.type = "string" THEN Len(v.s) <= test.params.max
              ELSE IF schema.type = "number" THEN v.n <= test.params.max
              ELSE Len(v.e) <= test.params.max
         [] test.name = "matches" -> PatternMatches(test.arg, v.s)
         [] test.name = "email" -> v.s = <<>> \/ IsEmail(v.s)
         [] test.name = "required" -> v.s # <<>>

RECURSIVE SyncErrors(_, _, _, _)
\* the errors of the synchronous tests from the i-th on, in test order
SyncErrors(schema, v, path, i) ==
    IF i > Len(schema.tests) THEN <<>>
    ELSE (IF schema.tests[i].name = "custom"
             \/ TestPasses(schema, schema.tests[i], v)
          THEN <<>>
          ELSE << YupError(path, schema.tests[i].message, schema.tests[i].params) >>)
         \o SyncErrors(schema, v, path, i + 1)

\* the custom tests of the schema (there is at most one)
CustomTests(schema) == SelectSeq(schema.tests, LAMBDA t : t.name = "custom")

\* the custom test throws: yup rejects the whole validate() with that error
CustomThrows(schema, v) ==
    /\ CustomTests(schema) # <<>>
    /\ CustomTest(CustomTests(schema)[1].arg, v) = TypeError

\* the error of the custom test; it settles after every synchronous test
CustomErrors(schema, v, path) ==
    IF CustomTests(schema) # <<>>
       /\ CustomTest(CustomTests(schema)[1].arg, v) = Bool(FALSE)
    THEN << YupError(path, CustomTests(schema)[1].message, NoKeys) >>
    ELSE <<>>

\* outcomes of a validation
Valid == [kind |-> "valid"]

Invalid(errors) == [kind |-> "invalid", errors |-> errors]

Thrown == [kind |-> "thrown"]

\* schema.validate(value) of a schema without nested fields, abortEarly
\* being true: the first failure rejects, the synchronous ones first
ValidateAbortEarly(schema, value) ==
    LET v == YupCast(schema.type, value)
    IN  IF InternalErrors(schema, v, <<>>) # <<>>
        THEN Invalid(InternalErrors(schema, v, <<>>))
        ELSE IF SyncErrors(schema, v, <<>>, 1) # <<>>
        THEN Invalid(<<Head(SyncErrors(schema, v, <<>>, 1))>>)
        ELSE IF CustomThrows(schema, v) THEN Thrown
        ELSE IF CustomErrors(schema, v, <<>>) # <<>>
             THEN Invalid(CustomErrors(schema, v, <<>>))
        ELSE Valid

\* the tests of one schema node under abortEarly: false: every failure is
\* collected, and a throwing custom test rejects with its own error
ValidateNode(schema, value, path) ==
    LET v == YupCast(schema.type, value)
    IN  IF InternalErrors(schema, v, path) # <<>>
        THEN Invalid(InternalErrors(schema, v, path))
        ELSE IF CustomThrows(schema, v) THEN Thrown
        ELSE Invalid(SyncErrors(schema, v, path, 1) \o CustomErrors(schema, v, path))

\* shape[name] = schema on an object literal: a new key goes last, an old
\* key keeps its place
SetShape(shape, name, schema) ==
    IF \E i \in 1..Len(shape) : shape[i].name = name
    THEN [i \in 1..Len(shape) |->
            IF shape[i].name = name THEN [name |-> name, schema |-> schema]
            ELSE shape[i]]
    ELSE Append(shape, [name |-> name, schema |-> schema])

\* yup.object().shape(shape)
YupObject(shape) ==
    [type |-> "object", tests |-> <<>>, required |-> Absent, shape |-> shape]

\* yup.array().of(itemSchema)
YupArrayOf(itemSchema) ==
    [type |-> "array", tests |-> <<>>, required |-> Absent, of |-> itemSchema]

\* the outcome of a function that returns x, and of one that throws
Returned(x) == [threw |-> FALSE, value |-> x]

Threw == [threw |-> TRUE]

RECURSIVE ObjectShape(_, _, _)
\* the loop of the object branch: every sub-field is compiled as a field
ObjectShape(fields, customMessages, objectShape) ==
    IF fields = <<>> THEN objectShape
    ELSE ObjectShape(Tail(fields), customMessages,
            SetShape(objectShape, Head(fields).name,
                     createFieldValidationSchema(Head(fields), customMessages)))

RECURSIVE createFormValidationSchema(_, _)
RECURSIVE processFields(_, _, _)
\* processFields(fields) continued on the shape built so far: an entry
\* without a type is skipped, and reading .fields of a schema that is
\* undefined throws
processFields(fields, customMessages, shape) ==
    IF fields = <<>> THEN Returned(shape)
    ELSE LET field == Head(fields)
             type == IF "type" \in DOMAIN field THEN field.type ELSE "undefined"
         IN  IF "type" \notin DOMAIN field
             THEN processFields(Tail(fields), customMessages, shape)
             ELSE IF type = "group"
             THEN LET inner == processFields(field.fields, customMessages, shape)
                  IN  IF inner.threw THEN Threw
                      ELSE processFields(Tail(fields), customMessages, inner.value)
             ELSE IF type = "array"
             THEN LET itemSchema ==
                          createFormValidationSchema(
                              IF "itemSchema" \in DOMAIN field
                              THEN field.itemSchema ELSE Undefined,
                              customMessages)
                  IN  IF itemSchema.threw THEN Threw
                      ELSE processFields(Tail(fields), customMessages,
                              SetShape(shape, field.name, YupArrayOf(itemSchema.value)))
             ELSE IF type = "object"
             THEN processFields(Tail(fields), customMessages,
                      SetShape(shape, field.name,
                          YupObject(ObjectShape(field.fields, customMessages, <<>>))))
             ELSE processFields(Tail(fields), customMessages,
                      SetShape(shape, field.name,
                          createFieldValidationSchema(field, customMessages)))

createFormValidationSchema(schema, customMessages) ==
    IF "fields" \notin DOMAIN schema THEN Threw
    ELSE LET shape == processFields(schema.fields, customMessages, <<>>)
         IN  IF shape.threw THEN Threw ELSE Returned(YupObject(shape.value))

\* `${path}.${key}` and `${path}[${index}]`
FieldPath(path, key) == IF path = <<>> THEN key ELSE Dot(path, key)

ItemPath(path, index) == path \o <<"[">> \o NumberToString(index) \o <<"]">>

\* the outcome of two validations that run side by side
Both(a, b) ==
    IF a = Thrown \/ b = Thrown THEN Thrown
    ELSE Invalid(a.errors \o b.errors)

RECURSIVE ValidateTree(_, _, _)
RECURSIVE ValidateFields(_, _, _, _)
RECURSIVE ValidateItems(_, _, _, _)
\* the fields i.. of an object schema against the object v
ValidateFields(shape, v, path, i) ==
    IF i > Len(shape) THEN Invalid(<<>>)
    ELSE Both(ValidateTree(shape[i].schema,
                  IF shape[i].name \in DOMAIN v.f THEN v.f[shape[i].name]
                  ELSE Undefined,
                  FieldPath(path, shape[i].name)),
              ValidateFields(shape, v, path, i + 1))

\* the items i.. of the array v against the item schema
ValidateItems(of, v, path, i) ==
    IF i > Len(v.e) THEN Invalid(<<>>)
    ELSE Both(ValidateTree(of, v.e[i], ItemPath(path, i - 1)),
              ValidateItems(of, v, path, i + 1))

\* schema.validate(value, {abortEarly: false}) below `path`: the node's own
\* tests, then the fields of an object and the items of an array; an
\* undefined object with fields is validated as the object of its defaults
ValidateTree(schema, value, path) ==
    LET v == IF value.t = "undefined" /\ "shape" \in DOMAIN schema
                /\ schema.shape # <<>>
             THEN Obj(0, NoKeys) ELSE YupCast(schema.type, value)
        node == ValidateNode(schema, v, path)
    IN  IF node = Thrown THEN Thrown
        ELSE IF "shape" \in DOMAIN schema /\ v.t = "object"
        THEN Both(ValidateFields(schema.shape, v, path, 1), node)
        ELSE IF "of" \in DOMAIN schema /\ v.t = "array"
        THEN Both(ValidateItems(schema.of, v, path, 1), node)
        ELSE node

RECURSIVE ErrorMap(_, _)
\* error.inner.forEach(err => { if (err.path) errors[err.path] = err.message })
ErrorMap(inner, errors) ==
    IF inner = <<>> THEN errors
    ELSE ErrorMap(Tail(inner),
            IF Head(inner).path # <<>>
            THEN (Head(inner).path :> Head(inner).message) @@ errors
            ELSE errors)

\* the message a validator returns
ValidationErrorMessage == <<"Validation error">>

validateFieldValue(fieldName, value, field, customMessages) ==
    LET outcome == ValidateAbortEarly(
                       createFieldValidationSchema(field, customMessages), value)
    IN  IF outcome = Valid THEN Null
        ELSE IF outcome = Thrown THEN Str(ValidationErrorMessage)
        ELSE Str(outcome.errors[1].message)

\* whole-form validation that leaves out the fields hidden on the data
validateFormDataVisible(data, schema, customMessages) ==
    LET visible == SelectSeq(schema.fields,
                             LAMBDA f : shouldFieldBeVisible(f, data) = Bool(TRUE))
        validationSchema == createFormValidationSchema([fields |-> visible],
                                                       customMessages)
    IN  IF validationSchema.threw THEN NoKeys
        ELSE LET outcome == ValidateTree(validationSchema.value, data, <<>>)
             IN  IF outcome = Thrown THEN NoKeys
                 ELSE ErrorMap(outcome.errors, NoKeys)

validateFormData(data, schema, customMessages) ==
    LET validationSchema == createFormValidationSchema(schema, customMessages)
    IN  IF validationSchema.threw THEN NoKeys
        ELSE LET outcome == ValidateTree(validationSchema.value, data, <<>>)
             IN  IF outcome = Thrown THEN NoKeys
                 ELSE ErrorMap(outcome.errors, NoKeys)

-----------------------------------------------------------------------------
(* Inputs of the validators *)

Name == <<"n", "a", "m", "e">>

Tags == <<"t", "a", "g", "s">>

Street == <<"s", "t", "r", "e", "e", "t">>

Address == <<"a", "d", "d", "r", "e", "s", "s">>

\* the rules a schema author writes under `validation`, one key each
TextRules ==
    { [minLength |-> 2], [maxLength |-> 3], [pattern |-> DigitsPattern],
      [email |-> TRUE] }

NumberRules == { [min |-> 18], [max |-> 20] }

ArrayRules == { [minItems |-> 1], [maxItems |-> 2] }

CustomRules == { [custom |-> p] : p \in CustomPredicates }

\* validation.required: absent, true, or a function of the form values
\* (truthy whatever it would return)
RequiredRules == { NoKeys, [required |-> Bool(TRUE)], [required |-> Fn("requiredWhen")] }

\* no rule, one rule, or two rules of different keys
RuleSets(rules) ==
    {NoKeys} \cup rules
      \cup {p[1] @@ p[2] : p \in {x \in rules \X rules : DOMAIN x[1] # DOMAIN x[2]}}

TypedRules ==
    { [type |-> "text", validation |-> v @@ q] :
          v \in RuleSets(TextRules \cup CustomRules), q \in RequiredRules }
      \cup { [type |-> "number", validation |-> v @@ q] :
               v \in RuleSets(NumberRules \cup CustomRules), q \in RequiredRules }
      \cup { [type |-> "array", validation |-> v @@ q] :
               v \in RuleSets(ArrayRules), q \in RequiredRules }

\* field.validationMessages: absent, or overriding some keys only
FieldMessageParts ==
    { NoKeys,
      [validationMessages |-> [required |-> <<"Name is required">>]],
      [validationMessages |->
          [minLength |-> <<"Name is too short">>, min |-> <<"Too young">>]] }

\* the form-level messages
FormMessages ==
    [required |-> <<"Please fill this in">>,
     minLength |-> <<"At least ", "${min}", " letters">>,
     maxLength |-> <<"Too long">>,
     min |-> <<"Not below ", "${min}">>,
     custom |-> <<"Rejected">>]

CustomMessages == { Absent, Present(FormMessages) }

\* the fields validateFieldValue is called with
ValidatedFields ==
    { [name |-> Name] @@ t @@ r @@ m :
          t \in TypedRules,
          r \in {NoKeys, [required |-> Bool(TRUE)]},
          m \in FieldMessageParts }

\* the values validateFieldValue is called with
ValidatedValues ==
    { Undefined, Null, Str(<<>>), Str(A), Str(Taken), Str(<<"a", "@", "b">>),
      Str(<<"a", "b", "c", "d">>), Str(Eighteen),
      Num(5), Num(15), Num(18), Num(21),
      Arr(1, <<>>), Arr(2, <<Str(A)>>), Arr(3, <<Str(A), Str(A), Str(A)>>) }

\* the fields of a form schema
RequiredName == [name |-> Name, type |-> "text", required |-> Bool(TRUE)]

ShortName ==
    [name |-> Name, type |-> "text", required |-> Bool(TRUE),
     validation |-> [minLength |-> 2]]

AdultAge == [name |-> Age, type |-> "number", validation |-> [min |-> 18]]

ThrowingAge == [name |-> Age, type |-> "number", validation |-> [custom |-> "throws"]]

RejectedAge ==
    [name |-> Age, type |-> "number", required |-> Bool(TRUE),
     validation |-> [custom |-> "rejectsAll"]]

StartField == [name |-> Start, type |-> "number", required |-> Bool(TRUE)]

EndField == [name |-> End, type |-> "number", validation |-> [custom |-> "afterStart"]]

StreetSchema == [fields |-> << [name |-> Street, type |-> "text", required |-> Bool(TRUE)] >>]

\* an array field with one to two items, as the schema author bounds it
BoundedTags ==
    [name |-> Tags, type |-> "array", required |-> Bool(TRUE),
     minItems |-> 1, maxItems |-> 2,
     validation |-> [minItems |-> 1, maxItems |-> 2],
     itemSchema |-> StreetSchema]

PlainTags == [name |-> Tags, type |-> "array", itemSchema |-> StreetSchema]

\* an array field whose author left out itemSchema
BareTags == [name |-> Tags, type |-> "array", required |-> Bool(TRUE)]

AddressField ==
    [name |-> Address, type |-> "object",
     fields |-> << [name |-> Street, type |-> "text", required |-> Bool(TRUE)] >>]

PersonGroup == [type |-> "group", fields |-> <<ShortName, AdultAge>>]

\* validation.required as a function of the form values: the name is
\* required when the age is above 18
RequiredWhen(all) == Bool(NumLess(Num(18), NumberOf(Prop(all.f, Age))))

ConditionalName ==
    [name |-> Name, type |-> "text",
     validation |-> [required |-> Fn("requiredWhen")]]

\* a required field shown to adults only and locked once the range is given
HiddenName ==
    RequiredName
    @@ [visibleWhen |-> << [field |-> Age, expected |-> Obj(20, DollarGte :> Num(18))] >>,
        disabledWhen |-> << [field |-> Start, expected |-> Num(10)] >>]

\* a disabled field shown only when a name is given
DisabledAge ==
    [name |-> Age, type |-> "number", required |-> Bool(TRUE),
     validation |-> [min |-> 18], disabled |-> TRUE,
     conditional |-> [field |-> Str(Name), operator |-> "isNotEmpty"]]

FormFields ==
    { RequiredName, ShortName, AdultAge, ThrowingAge, RejectedAge, StartField,
      EndField, BoundedTags, PlainTags, BareTags, AddressField, PersonGroup,
      ConditionalName, HiddenName, DisabledAge }

\* form schemas of one or two fields
FormSchemas ==
    { [fields |-> <<f>>] : f \in FormFields }
      \cup { [fields |-> p] : p \in {x \in FormFields \X FormFields : x[1] # x[2]} }

StreetItem(id, street) == Obj(id, Street :> Str(street))

\* the data of a form: every field absent or holding one of a few values
NameData == { NoKeys, Name :> Str(<<>>), Name :> Str(Taken) }

AgeData == { NoKeys, Age :> Num(15), Age :> Num(21) }

RangeData ==
    { NoKeys, (Start :> Num(10)) @@ (End :> Num(5)),
      (Start :> Num(10)) @@ (End :> Num(15)) }

TagsData ==
    { NoKeys, Tags :> Arr(1, <<>>),
      Tags :> Arr(1, <<StreetItem(2, A)>>),
      Tags :> Arr(1, <<StreetItem(2, A), StreetItem(3, <<>>), StreetItem(4, A)>>) }

AddressData == { NoKeys, Address :> StreetItem(5, <<>>) }

FormData ==
    { Obj(0, n @@ a @@ r @@ t @@ d) :
          n \in NameData, a \in AgeData, r \in RangeData, t \in TagsData,
          d \in AddressData }

-----------------------------------------------------------------------------
(* The validators as state machines.  validateFieldValue takes no form    *)
(* data: its specification starts from the empty form and makes one call.  *)
(* The whole-form functions make one call on the data of a form.           *)

NoData == Obj(0, NoKeys)

InitFieldValidation ==
    /\ formValues = NoData
    /\ call = NoCall
    /\ result = Undefined
    /\ NoComponents

ValidateFieldValue ==
    /\ call = NoCall
    /\ \E field \in ValidatedFields, value \in ValidatedValues,
          customMessages \in CustomMessages :
        /\ call' = [fn |-> "validateFieldValue", fieldName |-> field.name,
                    value |-> value, field |-> field,
                    customMessages |-> customMessages]
        /\ result' = validateFieldValue(field.name, value, field, customMessages)
        /\ UNCHANGED <<formValues, components>>

NextFieldValidation == ValidateFieldValue

SpecFieldValidation == InitFieldValidation /\ [][NextFieldValidation]_vars

InitFormValidation ==
    /\ formValues \in FormData
    /\ call = NoCall
    /\ result = Undefined
    /\ NoComponents

ValidateFormData ==
    /\ call = NoCall
    /\ \E schema \in FormSchemas, customMessages \in CustomMessages :
        /\ call' = [fn |-> "validateFormData", schema |-> schema,
                    customMessages |-> customMessages]
        /\ result' = validateFormData(formValues, schema, customMessages)
        /\ UNCHANGED <<formValues, components>>

CreateFormValidationSchema ==
    /\ call = NoCall
    /\ \E schema \in FormSchemas, customMessages \in CustomMessages :
        /\ call' = [fn |-> "createFormValidationSchema", schema |-> schema,
                    customMessages |-> customMessages]
        /\ result' = createFormValidationSchema(schema, customMessages)
        /\ UNCHANGED <<formValues, components>>

NextFormValidation ==
    \/ ValidateFormData
    \/ CreateFormValidationSchema

SpecFormValidation == InitFormValidation /\ [][NextFormValidation]_vars

-----------------------------------------------------------------------------
(* Properties of the validators *)

IsFieldCall == call.fn = "validateFieldValue"

IsFormCall == call.fn = "validateFormData"

RECURSIVE FlatFields(_)
\* the fields of a form schema with the fields of its groups in their place
FlatFields(fields) ==
    IF fields = <<>> THEN <<>>
    ELSE (IF Head(fields).type = "group" THEN FlatFields(Head(fields).fields)
          ELSE <<Head(fields)>>)
         \o FlatFields(Tail(fields))

\* the fields of the validated form that hold one value each and whose name
\* no other field of the form bears
PlainFields ==
    LET flat == FlatFields(call.schema.fields)
    IN  { flat[i] : i \in { j \in 1..Len(flat) :
            /\ flat[j].type \notin {"array", "object"}
            /\ \A k \in 1..Len(flat) : flat[k].name = flat[j].name => k = j } }

\* data[name] of the validated form
DataAt(name) == Prop(formValues.f, name)

\* the field fails when it is validated alone
FailsAlone(field) ==
    validateFieldValue(field.name, DataAt(field.name), field, call.customMessages) # Null

\* C11: whole-form validation never aborts early: when two or more distinct
\* fields of the form are invalid, the Error Map validateFormData returns has
\* a key for each of them.
C11_EveryInvalidFieldIsReported ==
    IsFormCall =>
        LET invalid == { f.name : f \in { g \in PlainFields : FailsAlone(g) } }
        IN  Cardinality(invalid) >= 2 => invalid \subseteq DOMAIN result

\* the custom predicate of the field throws on the field's value
PredicateThrows(field) ==
    /\ "validation" \in DOMAIN field
    /\ "custom" \in DOMAIN field.validation
    /\ CallCustom(field.validation.custom, DataAt(field.name), formValues) = TypeError

\* C12: a custom predicate that throws becomes a validation failure of its
\* field and does not abort the validation of the form: the Error Map of the
\* same validateFormData call has a key for that field and for every other
\* invalid field.
C12_ThrowingPredicateIsAFailure ==
    IsFormCall =>
        \A f \in PlainFields :
            PredicateThrows(f) =>
                /\ f.name \in DOMAIN result
                /\ \A g \in PlainFields : FailsAlone(g) => g.name \in DOMAIN result

\* C13: a custom rule is called with the field's value and the full form
\* values: with custom = (end, all) => end > all.start || "must be after
\* start" and start = 10, the form with end = 5 has an error for end and the
\* form with end = 15 has none.
C13_CustomSeesFormValues ==
    IsFormCall =>
        \A f \in PlainFields :
            f = EndField =>
                (End \in DOMAIN result
                    <=> CallCustom("afterStart", DataAt(End), formValues) # Bool(TRUE))

\* the call validates a string against a text field whose only rule is a
\* custom predicate, without messages of the field
IsCustomOnlyCall ==
    /\ IsFieldCall
    /\ call.field.type = "text"
    /\ DOMAIN call.field = {"name", "type", "validation"}
    /\ DOMAIN call.field.validation = {"custom"}
    /\ call.value.t = "string"

\* C14: every result of a custom predicate other than true is a failure: a
\* returned string is the reported message, and any other result reports the
\* resolved custom message ('Invalid value' unless overridden).
C14_ReturnedStringIsTheMessage ==
    IsCustomOnlyCall =>
        LET r == CallCustom(call.field.validation.custom, call.value, Undefined)
        IN  r # TypeError =>
              IF r = Bool(TRUE) THEN result = Null
              ELSE IF r.t = "string" THEN result = r
              ELSE result = Str(getValidationMessage("custom", Absent,
                                    call.customMessages))

\* required-ness as the schema states it: field.required is true,
\* validation.required is true, or it is a function returning true on the
\* form values
IsRequired(field, all) ==
    \/ Prop(field, "required") = Bool(TRUE)
    \/ /\ "validation" \in DOMAIN field
       /\ \/ Prop(field.validation, "required") = Bool(TRUE)
          \/ /\ Prop(field.validation, "required").t = "function"
             /\ RequiredWhen(all) = Bool(TRUE)

\* the field declares nothing but whether it is required
OnlyRequiredness(field) ==
    /\ field.type = "text"
    /\ DOMAIN field \subseteq {"name", "type", "required", "validation"}
    /\ "validation" \in DOMAIN field => DOMAIN field.validation \subseteq {"required"}

\* undefined, null and "" are empty
IsEmptyValue(v) == v.t \in {"undefined", "null"} \/ v = Str(<<>>)

\* C15: required-ness is computed: a field is required exactly when
\* field.required is true, validation.required is true, or
\* validation.required is a function that returns true on the current form
\* values; when the function returns false an empty value is no violation.
C15_RequiredIsComputed ==
    IsFormCall =>
        \A f \in PlainFields :
            OnlyRequiredness(f) =>
                (f.name \in DOMAIN result
                    <=> IsRequired(f, formValues) /\ IsEmptyValue(DataAt(f.name)))

\* the call validates "" against a required text field with minLength
IsEmptyAgainstRequiredMinLength ==
    /\ IsFieldCall
    /\ call.field.type = "text"
    /\ Prop(call.field, "required") = Bool(TRUE)
    /\ "minLength" \in DOMAIN call.field.validation
    /\ call.value = Str(<<>>)

\* C16: "" against a text field with required: true and minLength: 2 yields
\* the required message ('This field is required' by default), not the
\* minLength message.
C16_RequiredBeforeMinLength ==
    IsEmptyAgainstRequiredMinLength =>
        result = Str(getValidationMessage("required", FieldMessages(call.field),
                        call.customMessages))

\* the call validates a value against a field whose only rule is the bound
\* `key`, and the value breaks it
BreaksOnlyRule(key) ==
    /\ IsFieldCall
    /\ "required" \notin DOMAIN call.field
    /\ DOMAIN call.field.validation = {key}
    /\ \/ /\ key = "minLength" /\ call.field.type = "text"
          /\ call.value.t = "string" /\ call.value.s # <<>>
          /\ Len(call.value.s) < call.field.validation.minLength
       \/ /\ key = "maxLength" /\ call.field.type = "text"
          /\ call.value.t = "string"
          /\ Len(call.value.s) > call.field.validation.maxLength
       \/ /\ key = "min" /\ call.field.type = "number"
          /\ call.value.t = "number" /\ call.value.n < call.field.validation.min
       \/ /\ key = "max" /\ call.field.type = "number"
          /\ call.value.t = "number" /\ call.value.n > call.field.validation.max

\* the parameters yup hands to the message of the rule
RuleParams(key) ==
    CASE key = "minLength" -> [min |-> call.field.validation.minLength]
      [] key = "maxLength" -> [max |-> call.field.validation.maxLength]
      [] key = "min" -> [min |-> call.field.validation.min]
      [] key = "max" -> [max |-> call.field.validation.max]

\* C17: the message of a violated rule key is the field's
\* validationMessages[key], else the form-level message of the key, else the
\* built-in default, for every rule key: a field that overrides only some
\* keys still gets the form-level message for the others.
C17_MessageResolutionOrder ==
    \A key \in {"minLength", "maxLength", "min", "max"} :
        BreaksOnlyRule(key) =>
            result = Str(Interpolate(
                        getValidationMessage(key, FieldMessages(call.field),
                            call.customMessages),
                        RuleParams(key)))

\* the call validates a number against a number field that declares only
\* min and max bounds
IsBoundsCall ==
    /\ IsFieldCall
    /\ call.field.type = "number"
    /\ "required" \notin DOMAIN call.field
    /\ DOMAIN call.field.validation # {}
    /\ DOMAIN call.field.validation \subseteq {"min", "max"}
    /\ call.value.t = "number"

BelowMin ==
    "min" \in DOMAIN call.field.validation /\ call.value.n < call.field.validation.min

AboveMax ==
    "max" \in DOMAIN call.field.validation /\ call.value.n > call.field.validation.max

\* neither the field nor the form overrides a message
NoMessages ==
    "validationMessages" \notin DOMAIN call.field /\ call.customMessages = Absent

\* C18: a number field with min m (max M) reports an error exactly for the
\* numbers below m (above M), and the default message carries the bound:
\* with min 18 the value 15 reports "Must be at least 18" and 21 reports no
\* error.
C18_NumericBounds ==
    IsBoundsCall =>
        /\ result = Null <=> ~BelowMin /\ ~AboveMax
        /\ BelowMin /\ NoMessages =>
              result = Str(<<"Must be at least ">>
                             \o NumberToString(call.field.validation.min))
        /\ AboveMax /\ NoMessages =>
              result = Str(<<"Must be no more than ">>
                             \o NumberToString(call.field.validation.max))

C18_Witness ==
    /\ IsBoundsCall
    /\ call.field.validation = [min |-> 18]
    /\ call.value = Num(15)
    /\ NoMessages
    /\ result = Str(<<"Must be at least ", "1", "8">>)

\* the array fields of the validated form
ArrayFields ==
    LET flat == FlatFields(call.schema.fields)
    IN  { flat[i] : i \in { j \in 1..Len(flat) :
            /\ flat[j].type = "array"
            /\ \A k \in 1..Len(flat) : flat[k].name = flat[j].name => k = j } }

\* the array breaks the cardinality the field declares
BreaksCardinality(field, v) ==
    \/ Prop(field, "required") = Bool(TRUE) /\ v.t = "undefined"
    \/ /\ v.t = "array"
       /\ "validation" \in DOMAIN field
       /\ \/ "minItems" \in DOMAIN field.validation
             /\ Len(v.e) < field.validation.minItems
          \/ "maxItems" \in DOMAIN field.validation
             /\ Len(v.e) > field.validation.maxItems

\* C19: whole-form validation enforces the cardinality of an array field: an
\* array with fewer than minItems or more than maxItems items (or a missing
\* required array) has an error under the field's name in the Error Map.
C19_ArrayCardinalityEnforced ==
    IsFormCall =>
        \A f \in ArrayFields :
            "itemSchema" \in DOMAIN f /\ BreaksCardinality(f, DataAt(f.name))
                => f.name \in DOMAIN result

\* the schema holds an array field without itemSchema
HasBareArray(schema) ==
    \E i \in 1..Len(FlatFields(schema.fields)) :
        /\ FlatFields(schema.fields)[i].type = "array"
        /\ "itemSchema" \notin DOMAIN FlatFields(schema.fields)[i]

\* C20: a form schema with an array field that has no itemSchema fails at
\* compile time: createFormValidationSchema throws, and validateFormData on
\* that schema throws too and returns no Error Map, the empty one included.
C20_StructuralErrorFailsLoudly ==
    /\ call.fn = "createFormValidationSchema" /\ HasBareArray(call.schema)
          => result = Threw
    /\ IsFormCall /\ HasBareArray(call.schema) => result = Threw

-----------------------------------------------------------------------------
(* Simple-syntax keys against the atomic operators *)

\* the recognized keys, in the order the entry callback tests them
RecognizedKeys ==
    << DollarIn, DollarNotIn, DollarGt, DollarLt, DollarGte, DollarLte,
       DollarContains, DollarIsEmpty >>

\* the positions in RecognizedKeys of the keys the expected value carries
KeysOf(expected) ==
    IF IsObjectLike(expected)
    THEN {i \in 1..Len(RecognizedKeys) : HasKey(RecognizedKeys[i], expected)}
    ELSE {}

\* the operator each key stands for
AbbreviatedOperator ==
    << "in", "notIn", "greaterThan", "lessThan", "greaterThanOrEqual",
       "lessThanOrEqual", "contains" >>

\* the atomic condition an entry with at most one recognized key abbreviates
AtomicOf(entry) ==
    LET keys == KeysOf(entry.expected)
        i == CHOOSE k \in keys : TRUE
        x == GetProperty(entry.expected, RecognizedKeys[i])
    IN IF keys = {}
       THEN [field |-> Str(entry.field), operator |-> "equals", value |-> entry.expected]
       ELSE IF RecognizedKeys[i] = DollarIsEmpty
       THEN [field |-> Str(entry.field),
             operator |-> IF x = Bool(TRUE) THEN "isEmpty" ELSE "isNotEmpty"]
       ELSE IF RecognizedKeys[i] \in {DollarIn, DollarNotIn}
       THEN [field |-> Str(entry.field), operator |-> AbbreviatedOperator[i], values |-> x]
       ELSE [field |-> Str(entry.field), operator |-> AbbreviatedOperator[i], value |-> x]

\* the call evaluates a simple condition of one entry
IsOneEntryCall == call.fn = "evaluateSimpleCondition" /\ Len(call.condition) = 1

\* C26: an entry with one recognized key ($in, $notIn, $gt, $lt, $gte, $lte,
\* $contains, $isEmpty) or a plain expected value evaluates to the same
\* outcome as evaluateCondition with the operator it abbreviates, for every
\* field value, arrays, absent, null and non-strings included.
C26_SimpleKeysAgreeWithOperators ==
    (IsOneEntryCall /\ Cardinality(KeysOf(call.condition[1].expected)) <= 1)
    => result = evaluateCondition(AtomicOf(call.condition[1]), formValues)

\* the expected value with only the first of its recognized keys
OnlyFirstKey(expected) ==
    LET first == RecognizedKeys[CHOOSE i \in KeysOf(expected) :
                                    \A j \in KeysOf(expected) : i <= j]
    IN Obj(expected.id, first :> expected.f[first])

\* C27: when the expected value carries more than one recognized key, the
\* first key in the order $in, $notIn, $gt, $lt, $gte, $lte, $contains,
\* $isEmpty decides the entry alone: the outcome is that of the entry with
\* the other keys removed.
C27_FirstKeyDecides ==
    (IsOneEntryCall /\ Cardinality(KeysOf(call.condition[1].expected)) > 1)
    => result = evaluateSimpleCondition(
                    << [field |-> call.condition[1].field,
                        expected |-> OnlyFirstKey(call.condition[1].expected)] >>,
                    formValues)

\* age 18 against {$gte: 18, $lte: 15}: met, although 18 > 15
C27_Witness ==
    /\ IsOneEntryCall
    /\ call.condition[1].field = Age
    /\ call.condition[1].expected = Obj(20, (DollarGte :> Num(18)) @@ (DollarLte :> Num(15)))
    /\ getNestedValue(formValues, Str(Age)) = Num(18)
    /\ result = Bool(TRUE)

-----------------------------------------------------------------------------
(* The incremental against the whole-form entry point *)

\* a field holding one value, validated by built-in rules only
IsRuleField(field) ==
    /\ field.type \notin {"array", "object", "group"}
    /\ "validation" \in DOMAIN field => "custom" \notin DOMAIN field.validation

\* the validated form is made of rule fields with distinct names
IsRuleForm ==
    /\ IsFormCall
    /\ \A i \in 1..Len(call.schema.fields) : IsRuleField(call.schema.fields[i])
    /\ \A i, j \in 1..Len(call.schema.fields) :
          call.schema.fields[i].name = call.schema.fields[j].name => i = j

\* C28: validateFieldValue and validateFormData agree on every top-level
\* plain field without custom rules: the field-level call returns null
\* exactly when the Error Map has no key for the field, and otherwise both
\* report the same message, also when the value breaks several rules.
C28_EntryPointsAgree ==
    IsRuleForm =>
        \A i \in 1..Len(call.schema.fields) :
            LET field == call.schema.fields[i]
                single == validateFieldValue(field.name, DataAt(field.name), field,
                                             call.customMessages)
            IN  /\ single = Null <=> field.name \notin DOMAIN result
                /\ single # Null => single = Str(result[field.name])

-----------------------------------------------------------------------------
(* Validation against visibility and disablement *)

\* the properties of a field the visibility and disablement resolvers read
StateProperties == {"conditional", "visibleWhen", "disabledWhen", "disabled"}

\* the field without them
WithoutState(field) == [k \in DOMAIN field \ StateProperties |-> field[k]]

\* the schema whose fields differ from those of `schema` only in them
AlwaysShown(schema) ==
    [fields |-> [i \in 1..Len(schema.fields) |-> WithoutState(schema.fields[i])]]

\* validation of the form runs to its end: the schema compiles and no
\* predicate throws
Completes(data, schema, customMessages) ==
    LET validationSchema == createFormValidationSchema(schema, customMessages)
    IN  /\ ~validationSchema.threw
        /\ ValidateTree(validationSchema.value, data, <<>>) # Thrown

\* the field is required, hidden on the form's data, and its value is empty
IsHiddenEmptyRequired(field) ==
    /\ DOMAIN field \cap StateProperties # {}
    /\ Prop(field, "required") = Bool(TRUE)
    /\ "validation" \notin DOMAIN field
    /\ shouldFieldBeVisible(field, formValues) = Bool(FALSE)
    /\ DataAt(field.name) \in {Undefined, Str(<<>>)}

\* C29: validateFormData returns the same Error Map for two schemas that
\* differ only in the conditional, visibleWhen, disabledWhen or disabled
\* properties of their fields; a required field that shouldFieldBeVisible
\* reports as hidden yields the required error when its value is empty.
C29_ValidationIgnoresVisibility ==
    IsFormCall =>
        /\ result = validateFormData(formValues, AlwaysShown(call.schema),
                                     call.customMessages)
        /\ \A field \in PlainFields :
              (/\ IsHiddenEmptyRequired(field)
               /\ Completes(formValues, call.schema, call.customMessages))
              => /\ field.name \in DOMAIN result
                 /\ result[field.name] =
                        getValidationMessage("required", FieldMessages(field),
                                             call.customMessages)

\* the hidden name field is empty and reported
C29_Witness ==
    /\ IsFormCall
    /\ \E i \in 1..Len(call.schema.fields) :
          /\ call.schema.fields[i] = HiddenName
          /\ IsHiddenEmptyRequired(HiddenName)
    /\ Name \in DOMAIN result

-----------------------------------------------------------------------------
(* validateFormData as a process.  The test function registered for a      *)
(* custom rule is async: yup calls every predicate of the form, collects   *)
(* the failures as the promises settle, and settles validate() when the    *)
(* last one has; a predicate that throws rejects validate() at once.       *)

\* the promise validateFormData returned has not settled
Pending == [t |-> "pending"]

\* the failures of a field that are known before its predicate settles
SynchronousErrors(schema, value, path) ==
    LET v == YupCast(schema.type, value)
    IN  IF InternalErrors(schema, v, path) # <<>>
        THEN InternalErrors(schema, v, path)
        ELSE SyncErrors(schema, v, path, 1)

\* yup calls the custom predicate of the field: the value passed the
\* internal tests and the schema has a custom test
CallsCustom(schema, value) ==
    /\ InternalErrors(schema, YupCast(schema.type, value), <<>>) = <<>>
    /\ CustomTests(schema) # <<>>

RECURSIVE FirstErrors(_, _, _, _)
\* the failures of the fields i.. that are known when validate() is called
FirstErrors(shape, data, inner, i) ==
    IF i > Len(shape) THEN inner
    ELSE FirstErrors(shape, data,
             inner \o SynchronousErrors(shape[i].schema,
                          Prop(data.f, shape[i].name), shape[i].name),
             i + 1)

RECURSIVE SortByKeyOrder(_, _, _)
\* yup sorts the collected errors by the order of the fields in the shape
SortByKeyOrder(inner, shape, i) ==
    IF i > Len(shape) THEN <<>>
    ELSE SelectSeq(inner, LAMBDA err : err.path = shape[i].name)
         \o SortByKeyOrder(inner, shape, i + 1)

\* the schema compiled for the field `name`
SchemaOf(shape, name) ==
    shape[CHOOSE i \in 1..Len(shape) : shape[i].name = name].schema

\* fields with a custom predicate, some with synchronous rules as well
AsyncFields ==
    { [name |-> Name, type |-> "text", validation |-> [custom |-> p]] :
          p \in {"acceptsAll", "rejectsAll", "notTaken", "throws"} }
    \cup { [name |-> Age, type |-> "number", validation |-> [custom |-> p]] :
          p \in {"acceptsAll", "rejectsAll", "returnsNothing", "throws", "afterStart"} }
    \cup { RejectedAge, RequiredName,
           [name |-> Name, type |-> "text", required |-> Bool(TRUE),
            validation |-> [minLength |-> 2, custom |-> "rejectsAll"]] }

\* forms of two fields with distinct names
AsyncForms ==
    { [fields |-> p] :
        p \in {x \in AsyncFields \X AsyncFields : x[1].name # x[2].name} }

AsyncData == { Obj(0, n @@ a) : n \in NameData, a \in AgeData }

InitAsyncValidation ==
    /\ formValues \in AsyncData
    /\ call = NoCall
    /\ result = Undefined
    /\ NoComponents

\* validateFormData(data, schema) up to its await: the schema is compiled
\* and validate() calls the predicate of every field
StartValidateFormData ==
    /\ call = NoCall
    /\ \E schema \in AsyncForms :
        LET shape == createFormValidationSchema(schema, Absent).value.shape
        IN  /\ call' = [fn |-> "validateFormData", schema |-> schema,
                        customMessages |-> Absent]
            /\ result' = Pending
            /\ pendingValidation' =
                  [phase |-> "validating", shape |-> shape,
                   pending |-> { shape[i].name : i \in
                                   { j \in 1..Len(shape) :
                                       CallsCustom(shape[j].schema,
                                           Prop(formValues.f, shape[j].name)) } },
                   inner |-> FirstErrors(shape, formValues, <<>>, 1)]
            /\ UNCHANGED <<formValues, autocomplete, fileUpload>>

\* the promise of the predicate of field `name` settles.  A predicate that
\* threw rejects validate() with its own error: the catch block of
\* validateFormData finds no ValidationError and returns the empty map.
PredicateSettles(name) ==
    /\ pendingValidation.phase \in {"validating", "returned"}
    /\ name \in pendingValidation.pending
    /\ LET schema == SchemaOf(pendingValidation.shape, name)
           v == YupCast(schema.type, Prop(formValues.f, name))
           left == pendingValidation.pending \ {name}
       IN  IF pendingValidation.phase = "returned"
           THEN /\ pendingValidation' = [pendingValidation EXCEPT !.pending = left]
                /\ UNCHANGED result
           ELSE IF CustomThrows(schema, v)
           THEN /\ pendingValidation' =
                      [pendingValidation EXCEPT !.pending = left, !.phase = "returned"]
                /\ result' = NoKeys
           ELSE /\ pendingValidation' =
                      [pendingValidation EXCEPT
                          !.pending = left,
                          !.inner = @ \o CustomErrors(schema, v, name)]
                /\ UNCHANGED result
    /\ UNCHANGED <<formValues, call, autocomplete, fileUpload>>

\* every test has finished: validate() settles and validateFormData returns
\* the Error Map of the collected failures
ValidateSettles ==
    /\ pendingValidation.phase = "validating"
    /\ pendingValidation.pending = {}
    /\ result' = ErrorMap(SortByKeyOrder(pendingValidation.inner,
                                         pendingValidation.shape, 1), NoKeys)
    /\ pendingValidation' = [pendingValidation EXCEPT !.phase = "returned"]
    /\ UNCHANGED <<formValues, call, autocomplete, fileUpload>>

NextAsyncValidation ==
    \/ StartValidateFormData
    \/ \E name \in {Name, Age} : PredicateSettles(name)
    \/ ValidateSettles

SpecAsyncValidation == InitAsyncValidation /\ [][NextAsyncValidation]_vars

\* the custom predicate of the field does not accept the field's value
CustomFails(field) ==
    /\ "validation" \in DOMAIN field
    /\ "custom" \in DOMAIN field.validation
    /\ CustomTest(field.validation.custom, Prop(formValues.f, field.name)) # Bool(TRUE)
    /\ CallsCustom(createFieldValidationSchema(field, Absent),
                   Prop(formValues.f, field.name))

\* C21: validateFormData resolves only after every custom predicate of the
\* form has settled, and the Error Map it returns is the same for every
\* order in which they settle and holds the failure of every one of them.
C21_AwaitsEveryValidator ==
    pendingValidation.phase = "returned" =>
        /\ pendingValidation.pending = {}
        /\ result = validateFormData(formValues, call.schema, Absent)
        /\ \A i \in 1..Len(call.schema.fields) :
              CustomFails(call.schema.fields[i])
                  => call.schema.fields[i].name \in DOMAIN result

-----------------------------------------------------------------------------
(* Repeated and interleaved calls of the evaluators.  Several callers hold  *)
(* the same values snapshot and call the evaluators in any order; `call`    *)
(* and `result` hold the call and the outcome of each caller.               *)

Callers == {"render", "watch", "submit"}

\* the call `c` on the snapshot
Dispatch(c, fv) ==
    CASE c.fn = "evaluateCondition" -> evaluateCondition(c.condition, fv)
      [] c.fn = "evaluateComplexCondition" -> evaluateComplexCondition(c.condition, fv)
      [] c.fn = "evaluateConditionalLogic" -> evaluateConditionalLogic(c.condition, fv)
      [] c.fn = "evaluateSimpleCondition" -> evaluateSimpleCondition(c.condition, fv)
      [] c.fn = "shouldFieldBeVisible" -> shouldFieldBeVisible(c.field, fv)
      [] c.fn = "shouldFieldBeDisabled" -> shouldFieldBeDisabled(c.field, fv)

\* evaluators that answer false to every call after the first
EvaluateOnce(c, fv, earlier) ==
    IF DOMAIN earlier = {} THEN Dispatch(c, fv) ELSE Bool(FALSE)

\* the module has no variable outside its functions: the outcome of a call
\* is computed from its arguments, whatever calls were made before
Evaluate(c, fv, earlier) == Dispatch(c, fv)

RepeatedConditions ==
    { [field |-> Str(Country), operator |-> "equals", value |-> Str(Us)],
      [field |-> Str(Age), operator |-> "greaterThanOrEqual", value |-> Num(18)],
      [field |-> Str(A), operator |-> "isNotEmpty"] }

RepeatedComplex ==
    { [and |-> <<c, [field |-> Str(A), operator |-> "isNotEmpty"]>>] :
          c \in RepeatedConditions }
    \cup { [not |-> c] : c \in RepeatedConditions }

RepeatedFields ==
    { [visibleWhen |-> w] : w \in WhenConditions \ {<<>>} }
    \cup { [conditional |-> c, disabled |-> FALSE] : c \in RepeatedConditions }

\* the calls on a condition of the full syntax, on a condition of the
\* simple syntax, and on a field descriptor
ConditionCalls ==
    { [fn |-> "evaluateCondition", condition |-> c] : c \in RepeatedConditions }
    \cup { [fn |-> "evaluateComplexCondition", condition |-> c] : c \in RepeatedComplex }
    \cup { [fn |-> "evaluateConditionalLogic", condition |-> c] :
              c \in {[or |-> <<d>>] : d \in RepeatedConditions} }

SimpleCalls ==
    { [fn |-> "evaluateSimpleCondition", condition |-> w] : w \in WhenConditions }

FieldCalls ==
    { [fn |-> f, field |-> d] :
          f \in {"shouldFieldBeVisible", "shouldFieldBeDisabled"},
          d \in RepeatedFields }

RepeatedSnapshots ==
    { Obj(0, NoKeys), Obj(0, A :> Str(Us)) }
    \cup { Obj(0, (Country :> Str(x)) @@ (Age :> y)) :
              x \in {Us, Uk}, y \in {Num(15), Num(18)} }

InitRepeatedCalls ==
    /\ formValues \in RepeatedSnapshots
    /\ call = [caller \in Callers |-> NoCall]
    /\ result = [caller \in Callers |-> Undefined]
    /\ NoComponents

\* the caller makes the call c on the snapshot
Calls(caller, c) ==
    /\ call' = [call EXCEPT ![caller] = c]
    /\ result' = [result EXCEPT ![caller] =
                    Evaluate(c, formValues,
                             [d \in {x \in Callers : call[x].fn # "none"}
                                 |-> call[d]])]
    /\ UNCHANGED <<formValues, components>>

\* a caller calls one of the evaluators
CallEvaluator(caller) ==
    /\ call[caller].fn = "none"
    /\ \/ \E c \in ConditionCalls : Calls(caller, c)
       \/ \E c \in SimpleCalls : Calls(caller, c)
       \/ \E c \in FieldCalls : Calls(caller, c)

NextRepeatedCalls == \E caller \in Callers : CallEvaluator(caller)

SpecRepeatedCalls == InitRepeatedCalls /\ [][NextRepeatedCalls]_vars

\* the two calls are calls of the same function with the same argument
SameCall(c, d) == c.fn = d.fn /\ c = d

-----------------------------------------------------------------------------
(* The autocomplete field with a remote search endpoint.  `autocomplete`   *)
(* holds the state of one mounted component: the useState values, the ref  *)
(* of the debounce timer, the timers the browser holds, the requests in    *)
(* flight, and two records of the past: the queries of the requests issued *)
(* so far and the time for which the search term has not changed.          *)

\* the debounce interval, in ticks of the clock
DebounceTicks == 2

\* the number of requests after which no further request is followed
MaxRequests == 3

\* what the user is typing, one character at a time
Word == <<"a", "b">>

Prefix(n) == SubSeq(Word, 1, n)

\* clearTimeout(id): an id that is not pending is ignored
ClearTimeoutNever(timers, id) == timers

ClearTimeout(timers, id) == {t \in timers : <<t.id>> # id}

\* the id setTimeout returns: one no pending timer and no ref holds
NewTimerId(ac) ==
    CHOOSE n \in 1..(Cardinality(ac.timers) + 2) :
        /\ \A t \in ac.timers : t.id # n
        /\ ac.searchTimeoutRef # Present(n)

\* the debounce effect, with the cleanup of its previous run
DebounceEffect(ac) ==
    LET cleared == IF ac.searchTimeoutRef # Absent
                   THEN ClearTimeout(ClearTimeout(ac.timers, ac.searchTimeoutRef),
                                     ac.searchTimeoutRef)
                   ELSE ac.timers
        id == NewTimerId(ac)
    IN  IF Len(ac.searchTerm) >= ac.minChars \/ ac.searchTerm = <<>>
        THEN [ac EXCEPT !.timers = cleared \cup
                            {[id |-> id, term |-> ac.searchTerm,
                              remaining |-> DebounceTicks]},
                        !.searchTimeoutRef = Present(id)]
        ELSE [ac EXCEPT !.timers = cleared]

\* a render of the component.  The effect depends on searchTerm and on
\* searchOptions, and searchOptions depends on searchHeaders: unless the
\* parent passes the same headers object on every render, searchOptions is
\* a new function on every render and the effect runs again
Render(ac, termChanged) ==
    IF termChanged \/ ~ac.stableHeaders THEN DebounceEffect(ac) ELSE ac

\* the options the endpoint returns for a query
Response(query) == << [label |-> query, value |-> query] >>

\* the component after its first render and effect
Mounted(minChars, stableHeaders) ==
    DebounceEffect(
        [mounted |-> TRUE, minChars |-> minChars, stableHeaders |-> stableHeaders,
         searchTerm |-> <<>>, isOpen |-> FALSE, searchLoading |-> FALSE,
         searchResults |-> <<>>, searchTimeoutRef |-> Absent, timers |-> {},
         inFlight |-> {}, issued |-> <<>>, quiet |-> 0])

InitAutocomplete ==
    /\ formValues = NoData
    /\ call = NoCall
    /\ result = Undefined
    /\ pendingValidation = NoValidation
    /\ fileUpload = Unmounted
    /\ \E minChars \in {1, 2}, stableHeaders \in BOOLEAN :
          autocomplete = Mounted(minChars, stableHeaders)

\* handleInputChange: the user types the next character or deletes the last
HandleInputChange ==
    /\ \E newValue \in {Prefix(n) : n \in 0..Len(Word)} :
          /\ Len(newValue) - Len(autocomplete.searchTerm) \in {-1, 1}
          /\ autocomplete' =
                Render([autocomplete EXCEPT !.searchTerm = newValue,
                                            !.isOpen = TRUE, !.quiet = 0], TRUE)
    /\ UNCHANGED <<formValues, call, result, pendingValidation, fileUpload>>

\* handleOptionSelect in single mode: the term is cleared and the list closed
HandleOptionSelect ==
    /\ autocomplete.isOpen
    /\ autocomplete.searchResults # <<>>
    /\ autocomplete' =
          Render([autocomplete EXCEPT
                     !.searchTerm = <<>>, !.isOpen = FALSE,
                     !.quiet = IF autocomplete.searchTerm = <<>> THEN @ ELSE 0],
                 autocomplete.searchTerm # <<>>)
    /\ UNCHANGED <<formValues, call, result, pendingValidation, fileUpload>>

\* handleClickOutside: the list closes
HandleClickOutside ==
    /\ autocomplete.isOpen
    /\ autocomplete' = Render([autocomplete EXCEPT !.isOpen = FALSE], FALSE)
    /\ UNCHANGED <<formValues, call, result, pendingValidation, fileUpload>>

\* one tick passes
Tick ==
    /\ autocomplete' =
          [autocomplete EXCEPT
              !.timers = { [t EXCEPT !.remaining = IF @ > 0 THEN @ - 1 ELSE 0] :
                             t \in autocomplete.timers },
              !.quiet = IF @ < DebounceTicks THEN @ + 1 ELSE @]
    /\ UNCHANGED <<formValues, call, result, pendingValidation, fileUpload>>

\* a timer is due and its callback runs searchOptions(term) up to the await
\* of fetch: a short query empties the results, any other issues a request
TimerFires ==
    /\ \E t \in autocomplete.timers :
          /\ t.remaining = 0
          /\ LET fired == [autocomplete EXCEPT !.timers = @ \ {t}]
             IN  IF Len(t.term) < autocomplete.minChars
                 THEN autocomplete' =
                          Render([fired EXCEPT !.searchResults = <<>>], FALSE)
                 ELSE /\ Len(autocomplete.issued) < MaxRequests
                      /\ autocomplete' =
                            Render([fired EXCEPT
                                       !.searchLoading = TRUE,
                                       !.issued = Append(@, t.term),
                                       !.inFlight = @ \cup
                                           {[seq |-> Len(autocomplete.issued) + 1,
                                             query |-> t.term]}],
                                   FALSE)
    /\ UNCHANGED <<formValues, call, result, pendingValidation, fileUpload>>

\* the response of a request arrives, or the request fails: searchOptions
\* continues after the await, whatever was requested since
ResponseArrives ==
    /\ \E r \in autocomplete.inFlight, ok \in BOOLEAN :
          autocomplete' =
              Render([autocomplete EXCEPT
                         !.inFlight = @ \ {r},
                         !.searchResults = IF ok THEN Response(r.query) ELSE <<>>,
                         !.searchLoading = FALSE],
                     FALSE)
    /\ UNCHANGED <<formValues, call, result, pendingValidation, fileUpload>>

NextAutocomplete ==
    \/ HandleInputChange
    \/ HandleOptionSelect
    \/ HandleClickOutside
    \/ Tick
    \/ TimerFires
    \/ ResponseArrives

SpecAutocomplete == InitAutocomplete /\ [][NextAutocomplete]_vars

\* the query of the most recently issued request
LastIssued(ac) == ac.issued[Len(ac.issued)]

\* C23: remote search is last-write-wins: a response of an older request
\* that arrives after a newer request was issued is discarded, so when the
\* last response has arrived searchResults holds the results of the most
\* recently issued request (none if that request failed).
C23_LastWriteWins ==
    [][ (autocomplete.inFlight # {} /\ autocomplete'.inFlight = {})
            => autocomplete'.searchResults
                   \in {Response(LastIssued(autocomplete')), <<>>} ]_vars

-----------------------------------------------------------------------------
(* The file-upload field.  `fileUpload` holds the state of one mounted     *)
(* component: its props multiple and upload, the files list, the value     *)
(* last passed to onChange, the requests the browser has in flight, the    *)
(* status of the responses received, and the files onUploadError and       *)
(* onUploadComplete were called for.                                       *)

\* the maxFiles prop
MaxFiles == 2

\* the largest number of files of one selection or drop
MaxBatch == 2

\* the number of files the user adds in all
MaxAdded == 3

\* the maxSize prop and the sizes of the user's files, in megabytes
MaxSizeMB == 10

FileSizes == {1, 11}

\* onChange has not been called
NotCalled == [t |-> "notCalled"]

\* validateFile: null, or the message for a file that is too large
validateFile(file) ==
    IF file.size > MaxSizeMB THEN Str(<<"File size must be less than ", "10 MB">>)
    ELSE Null

\* the argument of onChange for a files list
ChangeValue(multiple, files) ==
    LET fileValues == [i \in 1..Len(files) |-> files[i].file]
    IN  IF multiple THEN Arr(0, fileValues)
        ELSE IF fileValues # <<>> THEN fileValues[1] ELSE Null

\* setFiles(prev => prev.map(f => f.file === file ? {...f, ...update} : f))
UpdateFile(files, id, update) ==
    [i \in 1..Len(files) |->
        IF files[i].file.id = id THEN update @@ files[i] ELSE files[i]]

\* handleFiles: the count check, validation, the new list, onChange, and
\* uploadFile for every validated file up to xhr.send
handleFiles(fu, newFiles) ==
    IF fu.multiple /\ Len(fu.files) + Len(newFiles) > MaxFiles THEN fu
    ELSE LET valid == SelectSeq(newFiles, LAMBDA file : validateFile(file) = Null)
             validatedFiles == [i \in 1..Len(valid) |->
                                   [file |-> valid[i], progress |-> 0,
                                    status |-> "pending"]]
             updatedFiles == IF fu.multiple THEN fu.files \o validatedFiles
                             ELSE validatedFiles
         IN  [fu EXCEPT !.files = updatedFiles,
                        !.value = ChangeValue(fu.multiple, updatedFiles),
                        !.xhrs = IF fu.upload
                                 THEN @ \cup {valid[i].id : i \in 1..Len(valid)}
                                 ELSE @]

\* removeFile
removeFile(fu, id) ==
    LET updatedFiles == SelectSeq(fu.files, LAMBDA f : f.file.id # id)
    IN  [fu EXCEPT !.files = updatedFiles,
                   !.value = ChangeValue(fu.multiple, updatedFiles)]

\* the files of a selection: new File objects, of any size
Batches ==
    UNION { [1..n -> FileSizes] : n \in 1..MaxBatch }

FilesOf(first, sizes) ==
    [i \in 1..Len(sizes) |-> [id |-> first + i - 1, size |-> sizes[i]]]

InitFileUpload ==
    /\ formValues = NoData
    /\ call = NoCall
    /\ result = Undefined
    /\ pendingValidation = NoValidation
    /\ autocomplete = Unmounted
    /\ \E multiple \in BOOLEAN, upload \in BOOLEAN :
          fileUpload = [mounted |-> TRUE, multiple |-> multiple, upload |-> upload,
                        files |-> <<>>, value |-> NotCalled, added |-> 0,
                        xhrs |-> {}, responses |-> <<>>,
                        uploadErrors |-> {}, uploadCompletes |-> {}]

\* the change handler of the file input: one file, or several when the
\* input has the multiple attribute
HandleFileInputChange ==
    /\ \E sizes \in Batches :
          /\ fileUpload.added + Len(sizes) <= MaxAdded
          /\ fileUpload.multiple \/ Len(sizes) = 1
          /\ fileUpload' =
                [handleFiles(fileUpload, FilesOf(fileUpload.added + 1, sizes))
                    EXCEPT !.added = @ + Len(sizes)]
    /\ UNCHANGED <<formValues, call, result, pendingValidation, autocomplete>>

\* handleDrop: the files of the drag, however many
HandleDrop ==
    /\ \E sizes \in Batches :
          /\ fileUpload.added + Len(sizes) <= MaxAdded
          /\ fileUpload' =
                [handleFiles(fileUpload, FilesOf(fileUpload.added + 1, sizes))
                    EXCEPT !.added = @ + Len(sizes)]
    /\ UNCHANGED <<formValues, call, result, pendingValidation, autocomplete>>

\* the remove button of a listed file
RemoveFile ==
    /\ \E i \in 1..Len(fileUpload.files) :
          fileUpload' = removeFile(fileUpload, fileUpload.files[i].file.id)
    /\ UNCHANGED <<formValues, call, result, pendingValidation, autocomplete>>

\* the progress listener
XhrProgress(id) ==
    /\ id \in fileUpload.xhrs
    /\ fileUpload' =
          [fileUpload EXCEPT
              !.files = UpdateFile(@, id, [progress |-> 50, status |-> "uploading"])]
    /\ UNCHANGED <<formValues, call, result, pendingValidation, autocomplete>>

\* the load listener: a response has arrived.  Its else branch throws
\* inside the listener, where no try block of uploadFile is on the stack
XhrLoad(id) ==
    /\ id \in fileUpload.xhrs
    /\ \E status \in {200, 500} :
          IF status >= 200 /\ status < 300
          THEN fileUpload' =
                  [fileUpload EXCEPT
                      !.xhrs = @ \ {id},
                      !.responses = (id :> status) @@ @,
                      !.files = UpdateFile(@, id,
                                    [progress |-> 100, status |-> "completed",
                                     url |-> <<"u", "r", "l">>]),
                      !.uploadCompletes = @ \cup {id}]
          ELSE fileUpload' =
                  [fileUpload EXCEPT !.xhrs = @ \ {id},
                                     !.responses = (id :> status) @@ @]
    /\ UNCHANGED <<formValues, call, result, pendingValidation, autocomplete>>

\* the error listener: the request failed on the network
XhrError(id) ==
    /\ id \in fileUpload.xhrs
    /\ fileUpload' =
          [fileUpload EXCEPT
              !.xhrs = @ \ {id},
              !.responses = (id :> 0) @@ @,
              !.files = UpdateFile(@, id,
                            [status |-> "error", error |-> <<"Upload failed">>]),
              !.uploadErrors = @ \cup {id}]
    /\ UNCHANGED <<formValues, call, result, pendingValidation, autocomplete>>

NextFileUpload ==
    \/ HandleFileInputChange
    \/ HandleDrop
    \/ RemoveFile
    \/ \E id \in 1..MaxAdded : XhrProgress(id)
    \/ \E id \in 1..MaxAdded : XhrLoad(id)
    \/ \E id \in 1..MaxAdded : XhrError(id)

\* the browser ends every request it has sent: load or error is dispatched
SpecFileUpload ==
    /\ InitFileUpload
    /\ [][NextFileUpload]_vars
    /\ \A id \in 1..MaxAdded : WF_vars(XhrLoad(id) \/ XhrError(id))

\* the entries of the list for the file; the status of a listed file
Listed(id) == \E i \in 1..Len(fileUpload.files) : fileUpload.files[i].file.id = id

EntryOf(id) ==
    fileUpload.files[CHOOSE i \in 1..Len(fileUpload.files) :
                        fileUpload.files[i].file.id = id]

Settled(id) == Listed(id) => EntryOf(id).status \in {"completed", "error"}

\* C25: every upload that was started leaves 'pending' / 'uploading': a 2xx
\* response makes the file 'completed' with progress 100 and the url, a
\* network error or a response with another status makes it 'error' and
\* calls onUploadError, and a settled file never returns to 'pending'.
C25_UploadsSettle ==
    /\ \A id \in 1..MaxAdded : (id \in fileUpload.xhrs) ~> Settled(id)
    /\ [](\A id \in DOMAIN fileUpload.responses :
            IF fileUpload.responses[id] = 200
            THEN Listed(id) =>
                    /\ EntryOf(id).status = "completed"
                    /\ EntryOf(id).progress = 100
                    /\ "url" \in DOMAIN EntryOf(id)
            ELSE /\ Listed(id) => EntryOf(id).status = "error"
                 /\ id \in fileUpload.uploadErrors)
    /\ [][\A id \in 1..MaxAdded :
            (Listed(id) /\ Settled(id) /\ Listed(id)')
                => EntryOf(id)'.status # "pending"]_vars

\* C30: the files list never holds more than maxFiles files when multiple
\* is true and never more than one when it is false, and the value passed
\* to onChange is the files of the list: all of them in multiple mode, the
\* first one or null in single mode.
C30_FileListBounded ==
    /\ Len(fileUpload.files) <= IF fileUpload.multiple THEN MaxFiles ELSE 1
    /\ fileUpload.value # NotCalled =>
          fileUpload.value = ChangeValue(fileUpload.multiple, fileUpload.files)

====
